---- MODULE Spec2Model ----
(***************************************************************************)
(* Sandboxed sketch execution: the host-side runner controller             *)
(* (createP5Runner), the ThumbnailBridge script injected into the iframe,  *)
(* and the hover-capture state machine of a star tile (renderStarTile).    *)
(*                                                                         *)
(* Time is abstracted to the order of events: a timer is a pending flag    *)
(* and fires as an action of its own.  Every message posted to a window    *)
(* is queued and handled by a later action.                                *)
(***************************************************************************)
EXTENDS Integers, Sequences, FiniteSets, TLC

\* ------------------------------------------------------------------------
\* Bounds and program constants
\* ------------------------------------------------------------------------
Tiles == {"a", "b"}          \* star tiles rendered by renderForest
MaxSessions == 2             \* mounts (iframe + runner) of the tile visited
MaxPairSessions == 1         \* mounts per tile when two tiles are visited
MaxStale == 1                \* messages of earlier sessions still queued
                             \* when a tile is entered again
MaxReqs == 2                 \* requestThumbnail calls of the API client
MaxSubs == 3                 \* observers registered on a runner at a time
MaxDocLen == 3               \* tokens of an author's index.html
MaxShellFiles == 3           \* files of a file set without index.html
MaxScriptFiles == 2          \* files next to an index.html with a script
MaxAssets == 2               \* uploaded assets of a file set
MaxHanded == 2               \* asset requests of a running document
MaxCalls == 2                \* console calls of a running document
MaxArgs == 2                 \* arguments of a console call
MaxPanels == 2               \* viewer panels opened
MaxClicks == 2               \* clicks on the Close button of a panel
maxTries == 20               \* sendThumbWhenReady: const maxTries = 20

Null == 0
Sids == 1..MaxSessions

NoPath == <<>>               \* the empty string path ""
InitPath == <<"init", 0>>    \* thumbnail path stored before the run
NoImg == <<>>                \* dataUrl null

Nonces == {"undefined", "n1", "n2"}

VARIABLES
  tile,      \* per star tile: closure variables and DOM of renderStarTile
  run,       \* per tile and session: the createP5Runner object, the
             \* requestThumbOnce closure and the timers of that session
  ctx,       \* per tile: the document loaded in the tile's iframe
  toCtx,     \* per tile: messages posted to iframe.contentWindow
  toHost,    \* per tile: messages posted by the tile's iframes to parent
  nodes,     \* state.nodes[sourceId].thumbnailPath per tile
  saveCb,    \* typeof onSaveThumbnailForNode === "function"
  observed,  \* per tile: what the API client's observers were called
             \* with by the latest message event
  asked,     \* the nonce arguments of the API client's
             \* requestThumbnail calls, in call order
  input,     \* the arguments of createP5Runner and run(): the file set
             \* and fitToFrame
  srcdoc,    \* iframeEl.srcdoc of the runner that assembles documents
  net,       \* the asset requests of the assembled document: the mode of
             \* the page and what the original primitives were handed
  modal      \* the modal of createModalManager and the viewer panels
             \* opened in it, each with its cleanup requests

vars == <<tile, run, ctx, toCtx, toHost, nodes, saveCb, observed, asked,
          input, srcdoc, net, modal>>

\* ------------------------------------------------------------------------
\* Helpers
\* ------------------------------------------------------------------------
RECURSIVE Without(_, _)
Without(s, x) ==
  IF s = <<>> THEN <<>>
  ELSE IF Head(s) = x THEN Without(Tail(s), x)
       ELSE <<Head(s)>> \o Without(Tail(s), x)

Has(s, x) == \E i \in 1..Len(s) : s[i] = x

\* Set.add keeps insertion order and ignores a value already present
SetAdd(s, x) == IF Has(s, x) THEN s ELSE Append(s, x)

\* ------------------------------------------------------------------------
\* Messages
\* ------------------------------------------------------------------------
\* nonce ?? null, and the default parameter nonce = null
NullIfMissing(n) == IF n = "undefined" THEN "null" ELSE n

\* host -> context; call numbers the requestThumbnail calls of one
\* controller (bookkeeping, not read by the code)
CtlMsg(type, nonce, call) == [type |-> type, nonce |-> nonce, call |-> call]

\* context -> host; sid and req identify the sending document and the
\* request that caused the message (bookkeeping, not read by the code)
Msg(type, nodeId, nonce, sid, req, why) ==
  [type |-> type, nodeId |-> nodeId, nonce |-> nonce,
   sid |-> sid, req |-> req, why |-> why, typeof |-> "object"]

\* ev.data of a message posted by any other script: typeof is what the
\* typeof operator gives ("object" with type "null" is the value null),
\* type is the type property, "undefined" when it is missing
Data(typeof, type) ==
  [type |-> type, nodeId |-> "a", nonce |-> "undefined",
   sid |-> Null, req |-> 0, why |-> "any", typeof |-> typeof]

\* the test of handleMessage that lets a payload through:
\* !(!msg || typeof msg !== "object")
IsObject(d) == d.typeof = "object" /\ d.type # "null"

ConsoleTypes == {"CONSOLE_LOG", "CONSOLE_WARN", "CONSOLE_ERROR"}

IsThumbReply(m) == m.type \in {"P5_THUMB", "P5_THUMB_ERR"}

\* the severities of the console
Levels == {"log", "warn", "error"}

\* "CONSOLE_" + level.toUpperCase()
ConsoleType(level) ==
  CASE level = "log" -> "CONSOLE_LOG"
    [] level = "warn" -> "CONSOLE_WARN"
    [] level = "error" -> "CONSOLE_ERROR"

\* msg.type.replace("CONSOLE_", "").toLowerCase()
levelOf(type) ==
  CASE type = "CONSOLE_LOG" -> "log"
    [] type = "CONSOLE_WARN" -> "warn"
    [] type = "CONSOLE_ERROR" -> "error"

\* the arguments of a console call: a number, null, a plain object, an
\* object with a cycle (JSON.stringify throws), an object with a cycle and
\* without a string conversion (String throws as well: an object without
\* prototype, a revoked proxy), an object whose toJSON returns undefined
ArgKinds == {"number", "null", "plain", "cyclic", "opaque", "noJson"}

\* typeof arg === "object" && arg !== null
IsObjectArg(arg) == arg \in {"plain", "cyclic", "opaque", "noJson"}

JsonThrows(arg) == arg \in {"cyclic", "opaque"}

StringThrows(arg) == arg = "opaque"

\* the callback of args.map: what stands for the argument in the message;
\* form is "JSON" or "String" for the string the conversion returns and
\* "undefined" when JSON.stringify returns undefined
stringForm(arg) ==
  IF IsObjectArg(arg) /\ ~JsonThrows(arg)
    THEN [form |-> IF arg = "noJson" THEN "undefined" ELSE "JSON",
          of |-> arg]
    ELSE [form |-> "String", of |-> arg]

\* the callback throws: JSON.stringify threw and String in the catch
\* clause throws too
Raises(arg) == IsObjectArg(arg) /\ JsonThrows(arg) /\ StringThrows(arg)

\* context -> host: the message of sendConsole; req numbers the console
\* calls of the document (bookkeeping, not read by the code)
ConsoleMsg(level, strs, k) ==
  [type |-> ConsoleType(level), args |-> strs, nodeId |-> "a",
   nonce |-> "undefined", sid |-> 1, req |-> k, why |-> "console",
   typeof |-> "object"]

\* sendConsole(level, args): what it posts to parent; an exception of the
\* body is caught and nothing is posted
sendConsole(level, args, k) ==
  IF \E i \in 1..Len(args) : Raises(args[i]) THEN <<>>
  ELSE <<ConsoleMsg(level, [i \in 1..Len(args) |-> stringForm(args[i])], k)>>

\* ------------------------------------------------------------------------
\* The document in the iframe: ThumbnailBridge
\* ------------------------------------------------------------------------
NoCtx ==
  [alive |-> FALSE, sid |-> Null, phase |-> "none", canvas |-> FALSE,
   dimsSent |-> FALSE, interval |-> FALSE, dimsRaf |-> FALSE, reqs |-> <<>>,
   console |-> <<>>, failures |-> <<>>]

\* iframeEl.srcdoc = buildSrcdoc(...): a new document starts loading
NewCtx(s) ==
  [alive |-> TRUE, sid |-> s, phase |-> "loading", canvas |-> FALSE,
   dimsSent |-> FALSE, interval |-> FALSE, dimsRaf |-> FALSE, reqs |-> <<>>,
   console |-> <<>>, failures |-> <<>>]

findCanvas(c) == c.canvas

\* sendThumb that forgets to echo the nonce
sendThumbNoEcho(c, nodeId, nonce, k, throws) ==
  IF ~findCanvas(c)
    THEN Msg("P5_THUMB_ERR", nodeId, "null", c.sid, k, "No canvas found")
    ELSE IF throws
      THEN Msg("P5_THUMB_ERR", nodeId, "null", c.sid, k, "exception")
      ELSE Msg("P5_THUMB", nodeId, "null", c.sid, k, "ok")

\* sendThumb without the try/catch around the encoding: the image
\* message is the one that goes out
sendThumbNoCatch(c, nodeId, nonce, k, throws) ==
  IF ~findCanvas(c)
    THEN Msg("P5_THUMB_ERR", nodeId, nonce, c.sid, k, "No canvas found")
    ELSE IF throws
      THEN Msg("P5_THUMB", nodeId, nonce, c.sid, k, "exception")
      ELSE Msg("P5_THUMB", nodeId, nonce, c.sid, k, "ok")

\* sendThumb(nonce): the one message it posts; throws = toDataURL throws
sendThumb(c, nodeId, nonce, k, throws) ==
  IF ~findCanvas(c)
    THEN Msg("P5_THUMB_ERR", nodeId, nonce, c.sid, k, "No canvas found")
    ELSE IF throws
      THEN Msg("P5_THUMB_ERR", nodeId, nonce, c.sid, k, "exception")
      ELSE Msg("P5_THUMB", nodeId, nonce, c.sid, k, "ok")

\* sendCanvasDimensions that is silent once the poll has reported
sendCanvasDimensionsOnce(c, nodeId) ==
  IF findCanvas(c) /\ ~c.dimsSent
    THEN <<Msg("P5_CANVAS_DIM", nodeId, "null", c.sid, 0, "dim")>>
    ELSE <<>>

\* sendCanvasDimensions(): zero or one message
sendCanvasDimensions(c, nodeId) ==
  IF findCanvas(c)
    THEN <<Msg("P5_CANVAS_DIM", nodeId, "null", c.sid, 0, "dim")>>
    ELSE <<>>

\* how many thumbnail replies a list of posted messages holds
RECURSIVE Replies(_)
Replies(out) ==
  IF out = <<>> THEN 0
  ELSE (IF IsThumbReply(Head(out)) THEN 1 ELSE 0) + Replies(Tail(out))

\* the request record after posting out: replies counts what was posted
Posted(r, out) == [r EXCEPT !.replies = r.replies + Replies(out)]

\* tick() without the return after the failure message: it posts
\* the failure and schedules itself again
tickNoReturn(c, nodeId, r, k) ==
  IF findCanvas(c)
    THEN [req |-> [r EXCEPT !.tries = 0, !.phase = "raf"], out |-> <<>>]
    ELSE IF r.tries + 1 >= maxTries
      THEN [req |-> [r EXCEPT !.tries = r.tries + 1, !.phase = "poll"],
            out |-> <<Msg("P5_THUMB_ERR", nodeId, r.nonce, c.sid, k,
                          "Canvas not created in time")>>]
      ELSE [req |-> [r EXCEPT !.tries = r.tries + 1, !.phase = "poll"],
            out |-> <<>>]

\* tick() that gives up one check early
tickGivesUpEarly(c, nodeId, r, k) ==
  IF findCanvas(c)
    THEN [req |-> [r EXCEPT !.tries = 0, !.phase = "raf"], out |-> <<>>]
    ELSE IF r.tries + 2 >= maxTries
      THEN [req |-> [r EXCEPT !.tries = 0, !.phase = "done"],
            out |-> <<Msg("P5_THUMB_ERR", nodeId, r.nonce, c.sid, k,
                          "Canvas not created in time")>>]
      ELSE [req |-> [r EXCEPT !.tries = r.tries + 1, !.phase = "poll"],
            out |-> <<>>]

\* one run of tick() inside sendThumbWhenReady for request record r:
\* the new request record and the messages posted.  tries is a local of
\* the closure; it is dead once tick() stops rescheduling itself, and the
\* record then keeps 0
tick(c, nodeId, r, k) ==
  IF findCanvas(c)
    THEN [req |-> [r EXCEPT !.tries = 0, !.phase = "raf"], out |-> <<>>]
    ELSE IF r.tries + 1 >= maxTries
      THEN [req |-> [r EXCEPT !.tries = 0, !.phase = "done"],
            out |-> <<Msg("P5_THUMB_ERR", nodeId, r.nonce, c.sid, k,
                          "Canvas not created in time")>>]
      ELSE [req |-> [r EXCEPT !.tries = r.tries + 1, !.phase = "poll"],
            out |-> <<>>]

\* sendThumbWhenReady(nonce): tries = 0, then the first tick() at once
sendThumbWhenReady(c, nodeId, nonce, k) ==
  tick(c, nodeId,
       [nonce |-> nonce, call |-> k, tries |-> 0, phase |-> "poll",
        replies |-> 0], k)

\* trySendCanvasDims(): sets dimsSent and schedules one animation frame
trySendCanvasDims(c) ==
  IF findCanvas(c) /\ ~c.dimsSent
    THEN [c EXCEPT !.dimsSent = TRUE, !.dimsRaf = TRUE]
    ELSE c

\* ------------------------------------------------------------------------
\* Host side: createP5Runner
\* ------------------------------------------------------------------------
\* a session slot before its runner is created
NoRunner ==
  [listening |-> FALSE, thumbHandlers |-> <<>>, errorHandlers |-> <<>>,
   consoleHandlers |-> <<>>,
   canvasDimHandlers |-> <<>>, waitTimer |-> FALSE, done |-> "none",
   timer |-> FALSE, resolves |-> 0, by |-> <<"none", 0>>]

\* createP5Runner: empty handler sets, window listener registered
createP5Runner == [NoRunner EXCEPT !.listening = TRUE]

\* destroy that removes the listener and keeps the handler sets
destroyKeepsHandlers(r) == [r EXCEPT !.listening = FALSE]

\* destroy(): listener removed, all handler sets cleared
destroy(r) ==
  [r EXCEPT !.listening = FALSE, !.thumbHandlers = <<>>,
            !.errorHandlers = <<>>, !.consoleHandlers = <<>>,
            !.canvasDimHandlers = <<>>]

\* a dispatch that hands every other type to the thumbnail handlers
HandlersForAnyType(r, type) ==
  CASE type = "P5_THUMB_ERR" -> r.errorHandlers
    [] type \in ConsoleTypes -> r.consoleHandlers
    [] type = "P5_CANVAS_DIM" -> r.canvasDimHandlers
    [] OTHER -> r.thumbHandlers

\* the handler set a message type is dispatched to
HandlersFor(r, type) ==
  CASE type = "P5_THUMB" -> r.thumbHandlers
    [] type = "P5_THUMB_ERR" -> r.errorHandlers
    [] type \in ConsoleTypes -> r.consoleHandlers
    [] type = "P5_CANVAS_DIM" -> r.canvasDimHandlers
    [] OTHER -> <<>>

\* onThumb / onError / onConsole / onCanvasDim: fn is added to the set of
\* the tag; tag is the message type the set serves
subscribe(r, tag, fn) ==
  CASE tag = "P5_THUMB" ->
         [r EXCEPT !.thumbHandlers = SetAdd(@, fn)]
    [] tag = "P5_THUMB_ERR" ->
         [r EXCEPT !.errorHandlers = SetAdd(@, fn)]
    [] tag \in ConsoleTypes ->
         [r EXCEPT !.consoleHandlers = SetAdd(@, fn)]
    [] tag = "P5_CANVAS_DIM" ->
         [r EXCEPT !.canvasDimHandlers = SetAdd(@, fn)]
    [] OTHER -> r

\* the function returned by a registration: fn is deleted from that set
unsubscribe(r, tag, fn) ==
  CASE tag = "P5_THUMB" ->
         [r EXCEPT !.thumbHandlers = Without(@, fn)]
    [] tag = "P5_THUMB_ERR" ->
         [r EXCEPT !.errorHandlers = Without(@, fn)]
    [] tag \in ConsoleTypes ->
         [r EXCEPT !.consoleHandlers = Without(@, fn)]
    [] tag = "P5_CANVAS_DIM" ->
         [r EXCEPT !.canvasDimHandlers = Without(@, fn)]
    [] OTHER -> r

\* requestThumbnail(nonce = null): iframeEl.contentWindow?.postMessage
requestThumbnail(q, nonce, call) ==
  Append(q, CtlMsg("REQ_THUMB", NullIfMissing(nonce), call))

pause(q) == Append(q, CtlMsg("P5_PAUSE", "null", 0))

resume(q) == Append(q, CtlMsg("P5_RESUME", "null", 0))

\* ------------------------------------------------------------------------
\* Host side: renderStarTile.  A bundle b holds everything one tile owns:
\* b.tile, b.run (per session), b.ctx, b.toCtx, b.obs
\* ------------------------------------------------------------------------
InitTile ==
  [hovering |-> FALSE, capturing |-> FALSE, iframe |-> Null,
   runner |-> Null, offCanvasDim |-> FALSE, expanded |-> FALSE,
   backgroundImage |-> InitPath, attached |-> {}, mounts |-> 0,
   pc |-> "idle", dataUrl |-> NoImg]

\* setThumbBackground(path)
setThumbBackground(t, path) == [t EXCEPT !.backgroundImage = path]

\* applyHoverSize(dim, expand): expanded size iff expand
applyHoverSize(t, expand) == [t EXCEPT !.expanded = expand]

\* collapseToTile that leaves the size as it is
collapseToTileKeepsSize(t) == t

\* collapseToTile(): base size, class star-expanded removed
collapseToTile(t) == [t EXCEPT !.expanded = FALSE]

\* mountSketchFresh() up to its await: new iframe s appended, new runner,
\* run(), onCanvasDim subscription, wait(60) started
mountSketchFresh(b, s) ==
  [b EXCEPT
     !.tile = [b.tile EXCEPT !.backgroundImage = NoPath, !.iframe = s,
                             !.attached = b.tile.attached \cup {s},
                             !.runner = s, !.offCanvasDim = TRUE,
                             !.mounts = s],
     !.run = [b.run EXCEPT ![s] =
                [createP5Runner EXCEPT !.canvasDimHandlers = <<"dimCb">>,
                                       !.waitTimer = TRUE]],
     !.ctx = NewCtx(s),
     !.toCtx = <<>>]

\* unmountSketchReset that destroys the runner but leaves the iframe in
\* the tile
unmountLeavesIframe(b) ==
  LET s == b.tile.runner
  IN [b EXCEPT
        !.tile = [b.tile EXCEPT !.offCanvasDim = FALSE, !.runner = Null,
                                !.iframe = Null],
        !.run = IF s = Null THEN b.run
                ELSE [b.run EXCEPT ![s] = destroy(b.run[s])]]

\* unmountSketchReset()
unmountSketchReset(b) ==
  LET s == b.tile.runner
      f == b.tile.iframe
      r1 == IF s = Null THEN b.run
            ELSE [b.run EXCEPT ![s] =
                    destroy(IF b.tile.offCanvasDim
                              THEN [b.run[s] EXCEPT !.canvasDimHandlers =
                                      Without(b.run[s].canvasDimHandlers,
                                              "dimCb")]
                              ELSE b.run[s])]
  IN [b EXCEPT
        !.tile = [b.tile EXCEPT !.offCanvasDim = FALSE, !.runner = Null,
                                !.attached = b.tile.attached \ {f},
                                !.iframe = Null],
        !.run = r1,
        !.ctx = IF f # Null /\ b.ctx.sid = f THEN NoCtx ELSE b.ctx,
        !.toCtx = IF f # Null /\ b.ctx.sid = f THEN <<>> ELSE b.toCtx]

\* the end of mouseleave without the unmount
finishLeaveNoUnmount(b, newPath, fresh) ==
  [b EXCEPT
     !.tile = [setThumbBackground(b.tile,
                 IF newPath # NoPath THEN newPath ELSE fresh)
               EXCEPT !.capturing = FALSE, !.pc = "idle",
                      !.dataUrl = NoImg]]

\* mouseleave after the persistence step: unmount, show the thumb,
\* capturing = false
finishLeave(b, newPath, fresh) ==
  LET u == unmountSketchReset(b)
  IN [u EXCEPT
        !.tile = [setThumbBackground(u.tile,
                    IF newPath # NoPath THEN newPath ELSE fresh)
                  EXCEPT !.capturing = FALSE, !.pc = "idle",
                         !.dataUrl = NoImg]]

\* the persistence step without the test of dataUrl
afterThumbAlwaysSaves(b, dataUrl, cb, fresh) ==
  IF cb
    THEN [b EXCEPT !.tile = [b.tile EXCEPT !.pc = "awaitSave",
                                           !.dataUrl = dataUrl]]
    ELSE finishLeave(b, NoPath, fresh)

\* mouseleave after "await requestThumbOnce(1600)"
afterThumb(b, dataUrl, cb, fresh) ==
  IF dataUrl # NoImg /\ cb
    THEN [b EXCEPT !.tile = [b.tile EXCEPT !.pc = "awaitSave",
                                           !.dataUrl = dataUrl]]
    ELSE finishLeave(b, NoPath, fresh)

\* the three resolving branches of requestThumbOnce share this body:
\* done = true; offThumb(); offErr(); resolve(value); the awaiting
\* mouseleave handler resumes in the same turn
resolveOnce(b, s, value, by, cb, fresh) ==
  LET r == [b.run[s] EXCEPT
              !.done = "yes",
              !.thumbHandlers = Without(b.run[s].thumbHandlers, "thumbCb"),
              !.errorHandlers = Without(b.run[s].errorHandlers, "errCb"),
              !.resolves = b.run[s].resolves + 1,
              !.by = by]
  IN afterThumb([b EXCEPT !.run = [b.run EXCEPT ![s] = r]],
                value, cb, fresh)

\* runner.onThumb callback of requestThumbOnce
thumbCb(b, s, m, cb, fresh) ==
  IF b.run[s].done = "yes" THEN b
  ELSE resolveOnce(b, s, <<m.nodeId, m.sid>>, <<m.nodeId, m.sid>>,
                   cb, fresh)

\* runner.onError callback of requestThumbOnce
errCb(b, s, m, cb, fresh) ==
  IF b.run[s].done = "yes" THEN b
  ELSE resolveOnce(b, s, NoImg, <<m.nodeId, m.sid>>, cb, fresh)

\* the setTimeout callback without its "if (done) return"
timeoutCbNoGuard(b, s, cb, fresh) ==
  resolveOnce(b, s, NoImg, <<"timeout", 0>>, cb, fresh)

\* the setTimeout callback of requestThumbOnce
timeoutCb(b, s, cb, fresh) ==
  IF b.run[s].done = "yes" THEN b
  ELSE resolveOnce(b, s, NoImg, <<"timeout", 0>>, cb, fresh)

\* the onCanvasDim callback without its test of hovering and capturing
dimCbNoGuard(b, expand) ==
  [b EXCEPT !.tile = applyHoverSize(b.tile, expand)]

\* runner.onCanvasDim callback of mountSketchFresh
dimCb(b, expand) ==
  IF b.tile.hovering /\ ~b.tile.capturing
    THEN [b EXCEPT !.tile = applyHoverSize(b.tile, expand)]
    ELSE b

\* an observer of the API client: records what it was called with
observer(b, h, m) ==
  [b EXCEPT !.obs = Append(b.obs, [h |-> h, type |-> m.type,
                                   nonce |-> NullIfMissing(m.nonce),
                                   req |-> m.req])]

\* an observer of the API client that calls its own unsubscribe function
obsOffSelf(b, s, h, m) ==
  LET b1 == observer(b, h, m)
  IN [b1 EXCEPT !.run = [b1.run EXCEPT ![s] =
                           unsubscribe(b1.run[s], m.type, h)]]

\* an observer of the API client that calls the unsubscribe function of
\* the observer "obsPlain" registered for the same tag
obsOffOther(b, s, h, m) ==
  LET b1 == observer(b, h, m)
  IN [b1 EXCEPT !.run = [b1.run EXCEPT ![s] =
                           unsubscribe(b1.run[s], m.type, "obsPlain")]]

\* fn({ level, args: msg.args || [] }) for an observer of the API client
\* registered with onConsole
obsConsole(b, h, m) ==
  [b EXCEPT !.obs =
     Append(b.obs, [h |-> h, level |-> levelOf(m.type),
                    args |-> IF "args" \in DOMAIN m THEN m.args ELSE <<>>,
                    req |-> m.req])]

call(b, s, h, m, expand, cb, fresh) ==
  CASE h = "thumbCb" -> thumbCb(b, s, m, cb, fresh)
    [] h = "obsConsole" -> obsConsole(b, h, m)
    [] h = "errCb" -> errCb(b, s, m, cb, fresh)
    [] h = "dimCb" -> dimCb(b, expand)
    [] h = "obsOffSelf" -> obsOffSelf(b, s, h, m)
    [] h = "obsOffOther" -> obsOffOther(b, s, h, m)
    [] OTHER -> observer(b, h, m)

\* for (const fn of handlers) fn(...): a handler deleted before its turn
\* is skipped
RECURSIVE forEach(_, _, _, _, _, _, _)
forEach(b, s, hs, m, expand, cb, fresh) ==
  IF hs = <<>> THEN b
  ELSE forEach(IF Has(HandlersFor(b.run[s], m.type), Head(hs))
                 THEN call(b, s, Head(hs), m, expand, cb, fresh)
                 ELSE b,
               s, Tail(hs), m, expand, cb, fresh)

\* handleMessage(ev) of runner s
handleMessage(b, s, m, expand, cb, fresh) ==
  IF ~IsObject(m) THEN b
  ELSE forEach(b, s, HandlersFor(b.run[s], m.type), m, expand, cb, fresh)

\* the message event reaches every listener registered on window
RECURSIVE dispatch(_, _, _, _, _, _)
dispatch(b, s, m, expand, cb, fresh) ==
  IF s > MaxSessions THEN b
  ELSE dispatch(IF b.run[s].listening
                  THEN handleMessage(b, s, m, expand, cb, fresh)
                  ELSE b,
                s + 1, m, expand, cb, fresh)

\* requestThumbOnce(timeoutMs), called by mouseleave
requestThumbOnce(b, cb, fresh) ==
  LET s == b.tile.runner
  IN IF s = Null
       THEN afterThumb(b, NoImg, cb, fresh)
       ELSE [b EXCEPT
               !.run = [b.run EXCEPT ![s] =
                  [b.run[s] EXCEPT
                     !.done = "no",
                     !.thumbHandlers =
                        SetAdd(b.run[s].thumbHandlers, "thumbCb"),
                     !.errorHandlers =
                        SetAdd(b.run[s].errorHandlers, "errCb"),
                     !.timer = TRUE]],
               !.toCtx = requestThumbnail(b.toCtx, "undefined", 1),
               !.tile = [b.tile EXCEPT !.pc = "awaitThumb"]]

\* the mouseenter listener without its re-entrancy guard
mouseenterNoGuard(b, expand) ==
  LET b1 == [b EXCEPT !.tile = applyHoverSize(
                          [b.tile EXCEPT !.hovering = TRUE], expand)]
  IN IF b1.tile.iframe = Null /\ ~b1.tile.capturing
       THEN mountSketchFresh(b1, b1.tile.mounts + 1)
       ELSE b1

\* the mouseenter listener
mouseenter(b, expand) ==
  IF b.tile.hovering \/ b.tile.capturing THEN b
  ELSE LET b1 == [b EXCEPT !.tile = applyHoverSize(
                               [b.tile EXCEPT !.hovering = TRUE], expand)]
       IN IF b1.tile.iframe = Null /\ ~b1.tile.capturing
            THEN mountSketchFresh(b1, b1.tile.mounts + 1)
            ELSE b1

\* the mouseleave listener without "hovering = false"
mouseleaveKeepsHovering(b, cb, fresh) ==
  IF ~b.tile.hovering THEN b
  ELSE LET b1 == [b EXCEPT !.tile = collapseToTile(b.tile)]
       IN IF b1.tile.runner = Null \/ b1.tile.capturing THEN b1
          ELSE requestThumbOnce(
                 [b1 EXCEPT !.tile = [b1.tile EXCEPT !.capturing = TRUE],
                            !.toCtx = pause(b1.toCtx)],
                 cb, fresh)

\* the mouseleave listener up to "await requestThumbOnce(1600)"
mouseleave(b, cb, fresh) ==
  IF ~b.tile.hovering THEN b
  ELSE LET b1 == [b EXCEPT !.tile = collapseToTile(
                               [b.tile EXCEPT !.hovering = FALSE])]
       IN IF b1.tile.runner = Null \/ b1.tile.capturing THEN b1
          ELSE requestThumbOnce(
                 [b1 EXCEPT !.tile = [b1.tile EXCEPT !.capturing = TRUE],
                            !.toCtx = pause(b1.toCtx)],
                 cb, fresh)

\* mountSketchFresh() after "await wait(60)": runner.resume?.() throws a
\* TypeError when runner is null, which rejects the handler's promise
afterWait(b, s) ==
  LET b1 == [b EXCEPT !.run = [b.run EXCEPT ![s] =
                                 [b.run[s] EXCEPT !.waitTimer = FALSE]]]
  IN IF b1.tile.runner = Null THEN b1
     ELSE [b1 EXCEPT !.toCtx = resume(b1.toCtx)]

\* ------------------------------------------------------------------------
\* State access
\* ------------------------------------------------------------------------
B(t) ==
  [tile |-> tile[t], run |-> run[t], ctx |-> ctx[t], toCtx |-> toCtx[t],
   obs |-> observed[t]]

Put(t, b) ==
  /\ tile' = [tile EXCEPT ![t] = b.tile]
  /\ run' = [run EXCEPT ![t] = b.run]
  /\ ctx' = [ctx EXCEPT ![t] = b.ctx]
  /\ toCtx' = [toCtx EXCEPT ![t] = b.toCtx]
  /\ observed' = [observed EXCEPT ![t] = b.obs]

Phase(t) ==
  IF tile[t].capturing THEN "Capturing"
  ELSE IF tile[t].hovering THEN "Hovering" ELSE "Idle"

\* ------------------------------------------------------------------------
\* Actions: pointer events and host timers of a star tile
\* ------------------------------------------------------------------------
\* the pointer is over one tile at a time; max bounds the mounts
MouseEnter(t, max) ==
  /\ \A u \in Tiles \ {t} : ~tile[u].hovering
  /\ \/ tile[t].hovering \/ tile[t].capturing
     \/ tile[t].mounts < max /\ Len(toHost[t]) <= MaxStale
  /\ \E expand \in BOOLEAN : Put(t, mouseenter(B(t), expand))
  /\ UNCHANGED <<toHost, nodes, saveCb, asked, input, srcdoc, net, modal>>

MouseLeave(t) ==
  /\ Put(t, mouseleave(B(t), saveCb, nodes[t]))
  /\ UNCHANGED <<toHost, nodes, saveCb, asked, input, srcdoc, net, modal>>

\* a pending timer is a step that can be taken: the 60 ms wait of a mount,
\* and the capture timer once the wait of its session has elapsed
WaitPending(t, s) == run[t][s].waitTimer

TimeoutPending(t, s) == run[t][s].timer /\ ~run[t][s].waitTimer

\* wait(60) of mountSketchFresh elapses
WaitElapsed(t, s) ==
  /\ WaitPending(t, s)
  /\ Put(t, afterWait(B(t), s))
  /\ UNCHANGED <<toHost, nodes, saveCb, asked, input, srcdoc, net, modal>>

\* the requestThumbOnce timer elapses; the 60 ms timer of the same session
\* was started earlier with a shorter delay and has fired before it
Timeout(t, s) ==
  /\ TimeoutPending(t, s)
  /\ LET b == B(t)
         b1 == [b EXCEPT !.run = [b.run EXCEPT ![s] =
                                    [b.run[s] EXCEPT !.timer = FALSE]]]
     IN Put(t, timeoutCb(b1, s, saveCb, nodes[t]))
  /\ UNCHANGED <<toHost, nodes, saveCb, asked, input, srcdoc, net, modal>>

\* the promise of onSaveThumbnailForNode settles: with a path, with
\* nothing, or rejected; the callback may have stored the path in state
SaveSettled(t) ==
  /\ tile[t].pc = "awaitSave"
  /\ \E outcome \in {"path", "empty", "reject"}, stored \in BOOLEAN :
       LET newPath == IF outcome = "path" THEN tile[t].dataUrl ELSE NoPath
           fresh == IF outcome = "path" /\ stored THEN newPath
                    ELSE nodes[t]
       IN /\ nodes' = [nodes EXCEPT ![t] = fresh]
          /\ Put(t, finishLeave(B(t), newPath, fresh))
  /\ UNCHANGED <<toHost, saveCb, asked, input, srcdoc, net, modal>>

\* a message event on the host window: every registered handleMessage runs
Deliver(t) ==
  /\ toHost[t] # <<>>
  /\ \E expand \in BOOLEAN :
       LET m == Head(toHost[t])
           nb == [u \in Tiles |->
                    dispatch([B(u) EXCEPT !.obs = <<>>], 1, m, expand,
                             saveCb, nodes[u])]
       IN /\ tile' = [u \in Tiles |-> nb[u].tile]
          /\ run' = [u \in Tiles |-> nb[u].run]
          /\ ctx' = [u \in Tiles |-> nb[u].ctx]
          /\ toCtx' = [u \in Tiles |-> nb[u].toCtx]
          /\ observed' = [u \in Tiles |-> nb[u].obs]
  /\ toHost' = [toHost EXCEPT ![t] = Tail(toHost[t])]
  /\ UNCHANGED <<nodes, saveCb, asked, input, srcdoc, net, modal>>

\* ------------------------------------------------------------------------
\* Actions: the document inside the iframe
\* ------------------------------------------------------------------------
Post(t, out) == toHost' = [toHost EXCEPT ![t] = toHost[t] \o out]

\* the bridge script runs: message listener, setInterval, load listener
ScriptRuns(t) ==
  /\ ctx[t].alive /\ ctx[t].phase = "loading"
  /\ ctx' = [ctx EXCEPT ![t] = [ctx[t] EXCEPT !.phase = "ready",
                                             !.interval = TRUE]]
  /\ UNCHANGED <<tile, run, toCtx, toHost, nodes, saveCb, observed, asked,
                 input, srcdoc, net, modal>>

\* window load event: trySendCanvasDims
LoadEvent(t) ==
  /\ ctx[t].alive /\ ctx[t].phase = "ready"
  /\ ctx' = [ctx EXCEPT ![t] =
               [trySendCanvasDims(ctx[t]) EXCEPT !.phase = "complete"]]
  /\ UNCHANGED <<tile, run, toCtx, toHost, nodes, saveCb, observed, asked,
                 input, srcdoc, net, modal>>

\* dimsInterval callback: trySendCanvasDims; if (dimsSent) clearInterval
DimsInterval(t) ==
  /\ ctx[t].alive /\ ctx[t].interval
  /\ LET c == trySendCanvasDims(ctx[t])
     IN ctx' = [ctx EXCEPT ![t] = [c EXCEPT !.interval = ~c.dimsSent]]
  /\ UNCHANGED <<tile, run, toCtx, toHost, nodes, saveCb, observed, asked,
                 input, srcdoc, net, modal>>

\* the animation frame requested by trySendCanvasDims
DimsFrame(t) ==
  /\ ctx[t].alive /\ ctx[t].dimsRaf
  /\ ctx' = [ctx EXCEPT ![t] = [ctx[t] EXCEPT !.dimsRaf = FALSE]]
  /\ Post(t, sendCanvasDimensions(ctx[t], t))
  /\ UNCHANGED <<tile, run, toCtx, nodes, saveCb, observed, asked,
                 input, srcdoc, net, modal>>

\* the sketch creates its canvas / removes it
CanvasAppears(t) ==
  /\ ctx[t].alive /\ ~ctx[t].canvas
  /\ ctx' = [ctx EXCEPT ![t] = [ctx[t] EXCEPT !.canvas = TRUE]]
  /\ UNCHANGED <<tile, run, toCtx, toHost, nodes, saveCb, observed, asked,
                 input, srcdoc, net, modal>>

CanvasRemoved(t) ==
  /\ ctx[t].alive /\ ctx[t].canvas
  /\ ctx' = [ctx EXCEPT ![t] = [ctx[t] EXCEPT !.canvas = FALSE]]
  /\ UNCHANGED <<tile, run, toCtx, toHost, nodes, saveCb, observed, asked,
                 input, srcdoc, net, modal>>

\* the bridge's message listener
BridgeReceives(t) ==
  /\ ctx[t].alive /\ ctx[t].phase # "loading" /\ toCtx[t] # <<>>
  /\ LET d == Head(toCtx[t])
         r == sendThumbWhenReady(ctx[t], t, NullIfMissing(d.nonce), d.call)
     IN IF d.type = "REQ_THUMB"
          THEN /\ ctx' = [ctx EXCEPT ![t] =
                            [ctx[t] EXCEPT !.reqs =
                               Append(@, Posted(r.req, r.out))]]
               /\ Post(t, r.out)
          ELSE UNCHANGED <<ctx, toHost>>
  /\ toCtx' = [toCtx EXCEPT ![t] = Tail(toCtx[t])]
  /\ UNCHANGED <<tile, run, nodes, saveCb, observed, asked,
                 input, srcdoc, net, modal>>

\* a message that arrives before the bridge script has run finds no listener
MessageUnheard(t) ==
  /\ ctx[t].alive /\ ctx[t].phase = "loading" /\ toCtx[t] # <<>>
  /\ toCtx' = [toCtx EXCEPT ![t] = Tail(toCtx[t])]
  /\ UNCHANGED <<tile, run, ctx, toHost, nodes, saveCb, observed, asked,
                 input, srcdoc, net, modal>>

\* setTimeout(tick, 50) of request k fires
PollTick(t, k) ==
  /\ ctx[t].alive /\ k \in 1..Len(ctx[t].reqs)
  /\ ctx[t].reqs[k].phase = "poll"
  /\ LET r == tick(ctx[t], t, ctx[t].reqs[k], ctx[t].reqs[k].call)
     IN /\ ctx' = [ctx EXCEPT ![t] =
                     [ctx[t] EXCEPT !.reqs[k] = Posted(r.req, r.out)]]
        /\ Post(t, r.out)
  /\ UNCHANGED <<tile, run, toCtx, nodes, saveCb, observed, asked,
                 input, srcdoc, net, modal>>

\* the animation frame of request k: sendThumb(nonce); sendCanvasDimensions()
ThumbFrame(t, k) ==
  /\ ctx[t].alive /\ k \in 1..Len(ctx[t].reqs)
  /\ ctx[t].reqs[k].phase = "raf"
  /\ \E throws \in BOOLEAN :
       LET out == <<sendThumb(ctx[t], t, ctx[t].reqs[k].nonce,
                              ctx[t].reqs[k].call, throws)>>
                  \o sendCanvasDimensions(ctx[t], t)
       IN /\ Post(t, out)
          /\ ctx' = [ctx EXCEPT ![t] =
                       [ctx[t] EXCEPT !.reqs[k] =
                          Posted([@ EXCEPT !.phase = "done"], out)]]
  /\ UNCHANGED <<tile, run, toCtx, nodes, saveCb, observed, asked,
                 input, srcdoc, net, modal>>

\* ------------------------------------------------------------------------
\* Actions: a client of the runner API on tile slot "a"
\* ------------------------------------------------------------------------
\* the nonces the client passes: the first call with or without one
NonceChoices(i) == IF i = 0 THEN {"undefined", "n1"} ELSE {"n2"}

ClientRequests(n) ==
  /\ Len(asked) < MaxReqs
  /\ n \in NonceChoices(Len(asked))
  /\ asked' = Append(asked, n)
  /\ toCtx' = [toCtx EXCEPT !["a"] =
                 requestThumbnail(toCtx["a"], n, Len(asked) + 1)]
  /\ UNCHANGED <<tile, run, ctx, toHost, nodes, saveCb, observed, input,
               srcdoc, net, modal>>

\* ------------------------------------------------------------------------
\* Actions: a client that registers observers on the runner of slot "a",
\* and other scripts that post to the host window
\* ------------------------------------------------------------------------
\* one tag per registration function: onThumb, onError, onConsole,
\* onCanvasDim
Tags == {"P5_THUMB", "P5_THUMB_ERR", "CONSOLE_LOG", "P5_CANVAS_DIM"}

\* the client's observers: one that only records its call, one that
\* unsubscribes itself when called, one that unsubscribes obsPlain
Observers == {"obsPlain", "obsOffSelf", "obsOffOther"}

\* what a script can post: undefined, a string, a number, null, an object
\* without type, an object of unknown type, and the known tags
Payloads ==
  {Data("undefined", "undefined"), Data("string", "undefined"),
   Data("number", "undefined"), Data("object", "null"),
   Data("object", "undefined"), Data("object", "OTHER")}
  \cup {Data("object", ty) : ty \in Tags \cup ConsoleTypes}

Registered(r) ==
  Len(r.thumbHandlers) + Len(r.errorHandlers) + Len(r.consoleHandlers)
    + Len(r.canvasDimHandlers)

Subscribes(tag, h) ==
  /\ Registered(run["a"][1]) < MaxSubs
  /\ ~Has(HandlersFor(run["a"][1], tag), h)
  /\ run' = [run EXCEPT !["a"][1] = subscribe(@, tag, h)]
  /\ UNCHANGED <<tile, ctx, toCtx, toHost, nodes, saveCb, observed, asked,
                 input, srcdoc, net, modal>>

Unsubscribes(tag, h) ==
  /\ Has(HandlersFor(run["a"][1], tag), h)
  /\ run' = [run EXCEPT !["a"][1] = unsubscribe(@, tag, h)]
  /\ UNCHANGED <<tile, ctx, toCtx, toHost, nodes, saveCb, observed, asked,
                 input, srcdoc, net, modal>>

Destroys ==
  /\ run["a"][1].listening
  /\ run' = [run EXCEPT !["a"][1] = destroy(@)]
  /\ UNCHANGED <<tile, ctx, toCtx, toHost, nodes, saveCb, observed, asked,
                 input, srcdoc, net, modal>>

\* window.postMessage(d) by some script; one message in flight at a time
Injects(d) ==
  /\ toHost["a"] = <<>>
  /\ toHost' = [toHost EXCEPT !["a"] = <<d>>]
  /\ UNCHANGED <<tile, run, ctx, toCtx, nodes, saveCb, observed, asked,
                 input, srcdoc, net, modal>>

\* the argument lists of a console call
RECURSIVE ArgLists(_)
ArgLists(n) ==
  IF n = 0 THEN {<<>>}
  ELSE ArgLists(n - 1)
         \cup {Append(a, x) : a \in ArgLists(n - 1), x \in ArgKinds}

\* console.log / console.warn / console.error of the running document:
\* the original method, then sendConsole, which lets no exception out;
\* ctx.console keeps the calls with what each one handed to postMessage
ConsoleCalls(level, args) ==
  /\ ctx["a"].alive
  /\ Len(ctx["a"].console) < MaxCalls
  /\ LET out == sendConsole(level, args, Len(ctx["a"].console) + 1)
     IN /\ ctx' = [ctx EXCEPT !["a"].console =
                     Append(@, [level |-> level, args |-> args,
                                threw |-> FALSE, sent |-> out])]
        /\ Post("a", out)
  /\ UNCHANGED <<tile, run, toCtx, nodes, saveCb, observed, asked, input,
                 srcdoc, net, modal>>

\* what author code can leave uncaught: an exception, or a rejected
\* promise whose reason is any value
AuthorFailures ==
  {[kind |-> "error", reason |-> "string"]}
    \cup {[kind |-> "rejection", reason |-> r] : r \in ArgKinds}

\* the arguments the listeners give sendConsole: the message and the
\* location of the error, both strings, or a label and the reason
failureArgs(f) ==
  IF f.kind = "error" THEN <<"string", "string">>
  ELSE <<"string", f.reason>>

\* the "error" and "unhandledrejection" listeners of the console script;
\* ctx.failures keeps the events with what each one handed to postMessage
AuthorFails(f) ==
  /\ ctx["a"].alive
  /\ Len(ctx["a"].failures) < MaxCalls
  /\ LET k == Len(ctx["a"].failures) + 1
         out == sendConsole("error", failureArgs(f), k)
     IN /\ ctx' = [ctx EXCEPT !["a"].failures =
                     Append(@, [kind |-> f.kind, reason |-> f.reason,
                                sent |-> out])]
        /\ Post("a", out)
  /\ UNCHANGED <<tile, run, toCtx, nodes, saveCb, observed, asked, input,
                 srcdoc, net, modal>>

\* ------------------------------------------------------------------------
\* Paths and file sets.  A path is the sequence of its segments, the
\* pieces between the slashes: "/img/cat.png" is <<"", "img", "cat.png">>,
\* "//cdn/x.js" is <<"", "", "cdn", "x.js">> and "" is <<"">>
\* ------------------------------------------------------------------------
EmptyPath == <<"">>

\* the segments of the model that have a property a string test asks for
HttpSegs == {"http:", "https:", "http-client.js"}     \* startsWith("http")
P5Segs == {"p5.min.js", "p5.sound.js"}                 \* includes("p5")
JsDelivrSegs == {"cdn.jsdelivr.net"}       \* includes("cdn.jsdelivr.net")
JsSegs ==                                              \* endsWith(".js")
  {"sketch.js", "lib.js", "util.js", "p5.min.js", "p5.sound.js",
   "http-client.js"}
CssSegs == {"style.css"}                               \* endsWith(".css")

\* p.startsWith("/")
StartsWithSlash(p) == Len(p) >= 2 /\ p[1] = ""

\* while (p.startsWith("/")) p = p.substring(1); src.replace(/^\/+/, "")
RECURSIVE StripSlashes(_)
StripSlashes(p) == IF StartsWithSlash(p) THEN StripSlashes(Tail(p)) ELSE p

\* if (p.startsWith("editor/")) p = p.substring(7)
StripEditor(p) == IF Len(p) >= 2 /\ p[1] = "editor" THEN Tail(p) ELSE p

\* p.replace(/^\.\//, "")
StripDot(p) == IF Len(p) >= 2 /\ p[1] = "." THEN Tail(p) ELSE p

\* p.split("/").pop()
Base(p) == <<p[Len(p)]>>

\* p.startsWith("http")
StartsWithHttp(p) == p[1] \in HttpSegs

\* p.startsWith("//")
StartsWithTwoSlashes(p) == Len(p) >= 3 /\ p[1] = "" /\ p[2] = ""

\* p.startsWith("/file/")
StartsWithFile(p) == Len(p) >= 3 /\ p[1] = "" /\ p[2] = "file"

\* p.startsWith("data:")
StartsWithData(p) == p[1] = "data:image"

\* p.includes(s) for a string s without a slash
Includes(p, segs) == \E i \in 1..Len(p) : p[i] \in segs

\* a piece of text: the "// path" or "/* path */" line in front of a
\* file, a stretch of code, a closing script tag, an uploaded-asset
\* marker, or an entry of a table of the asset server
Chunk(kind, of, to, text) ==
  [kind |-> kind, of |-> of, to |-> to, text |-> text]

Code == Chunk("code", <<>>, <<>>, "code")

Close(text) == Chunk("close", <<>>, <<>>, text)

\* the closing script tags /<\/script>/gi matches
ExactCloses == {"</script>", "</SCRIPT>"}

\* a closing script tag the expression does not match: the tag name may
\* be followed by white space
OtherCloses == {"</script >"}

\* the content of a file: text, or "#UPLOADED_FILE#" + server path
TextContent(chunks) == [kind |-> "text", chunks |-> chunks, server |-> <<>>]

Marker(server) == [kind |-> "marker", chunks |-> <<>>, server |-> server]

\* files[key] for a key the object does not have
Undefined == [kind |-> "undefined", chunks |-> <<>>, server |-> <<>>]

Entry(key, content) == [key |-> key, content |-> content]

\* files[key]
Get(files, key) ==
  IF \E i \in 1..Len(files) : files[i].key = key
    THEN files[CHOOSE i \in 1..Len(files) : files[i].key = key].content
    ELSE Undefined

\* typeof content === "string" && content.startsWith("#UPLOADED_FILE#")
IsMarker(content) == content.kind = "marker"

\* the text of a file as it is written into a document
ContentChunks(content) ==
  IF IsMarker(content)
    THEN <<Chunk("marker", <<>>, content.server, "")>>
    ELSE content.chunks

\* jsText.replace(/<\/script>/gi, "<\\/script>")
escape(chunks) ==
  [i \in 1..Len(chunks) |->
     IF chunks[i].kind = "close" /\ chunks[i].text \in ExactCloses
       THEN Chunk("escaped", <<>>, <<>>, "<\\/script>")
       ELSE chunks[i]]

\* sequence of the sequences f[1], ..., f[n] joined
RECURSIVE Join(_)
Join(f) == IF f = <<>> THEN <<>> ELSE Head(f) \o Join(Tail(f))

\* ------------------------------------------------------------------------
\* Document assembly: buildSrcdoc.  A document is a sequence of tokens, an
\* element or tag each; body is the text an inline element holds, src the
\* path a script refers to, attrs the class attributes of a tag
\* ------------------------------------------------------------------------
Tok(t) == [t |-> t, body |-> <<>>, src |-> <<>>, attrs |-> <<>>]

Holding(t, body) == [Tok(t) EXCEPT !.body = body]

\* <script src="..."></script>
ScriptSrc(src) == [Tok("<script src>") EXCEPT !.src = src]

\* <html ...> or <body ...> with class attributes
Tag(t, attrs) == [Tok(t) EXCEPT !.attrs = attrs]

\* class="a b" (quoted) or class=a (bare)
ClassAttr(form, names) == [form |-> form, names |-> names]

\* what an author's index.html is made of here: tags, an inline script
\* and white space
AuthorTags ==
  {"<html>", "<head>", "</head>", "<header>", "<body>", "</body>",
   "<script>", " "}

\* the elements the assembler adds
ConsoleScript == Tok("console-interception")
ThumbBridge == Tok("thumb-bridge")
P5Cdn == Tok("<script src=cdn/p5.min.js>")

\* the tags a regular expression of the assembler matches
HeadTest == {"<head>", "<header>"}          \* /<head/i
HeadOpen == {"<head>", "<header>"}          \* /<head[^>]*>/i
HtmlOpen == {"<html>"}                      \* /<html[^>]*>/i
BodyTest == {"<body>"}                      \* /<body/i
HeadClose == {"</head>"}                    \* /<\/head>/i
BodyClose == {"</body>"}                    \* /<\/body>/i

\* index of the first token a pattern matches, 0 when there is none
FirstMatch(doc, M) ==
  IF \E i \in 1..Len(doc) : doc[i].t \in M
    THEN CHOOSE i \in 1..Len(doc) :
           doc[i].t \in M /\ \A j \in 1..(i - 1) : doc[j].t \notin M
    ELSE 0

\* html.replace(re, "$&" + new): only the first match is replaced
InsertAfterFirst(doc, M, new) ==
  LET i == FirstMatch(doc, M)
  IN IF i = 0 THEN doc
     ELSE SubSeq(doc, 1, i) \o new \o SubSeq(doc, i + 1, Len(doc))

\* html.replace(re, new + "$&")
InsertBeforeFirst(doc, M, new) ==
  LET i == FirstMatch(doc, M)
  IN IF i = 0 THEN doc
     ELSE SubSeq(doc, 1, i - 1) \o new \o SubSeq(doc, i, Len(doc))

\* /\sclass\s*=\s*["'][^"']*["']/i matches the attribute
IsQuoted(attr) == attr.form = "quoted"

\* parts.includes(className)
HasName(names, className) ==
  \E k \in 1..Len(names) : names[k] = className

\* the attributes of the tag after addClassToTag
addClass(attrs, className) ==
  IF \E k \in 1..Len(attrs) : IsQuoted(attrs[k])
    THEN LET k == CHOOSE k \in 1..Len(attrs) :
                    /\ IsQuoted(attrs[k])
                    /\ \A j \in 1..(k - 1) : ~IsQuoted(attrs[j])
         IN IF HasName(attrs[k].names, className) THEN attrs
            ELSE [attrs EXCEPT ![k].names = Append(@, className)]
    ELSE Append(attrs, ClassAttr("quoted", <<className>>))

\* addClassToTag(html, tagName, "__p5fit")
addClassToTag(doc, M) ==
  LET i == FirstMatch(doc, M)
  IN IF i = 0 THEN doc
     ELSE [doc EXCEPT ![i].attrs = addClass(@, "__p5fit")]

\* userHtml.trim() is not empty
NotBlank(toks) == \E i \in 1..Len(toks) : toks[i].t # " "

IsCss(e) == e.key[Len(e.key)] \in CssSegs

IsJs(e) == e.key[Len(e.key)] \in JsSegs

IsSketch(e) == e.key = <<"sketch.js">>

IsOther(e) == e.key # <<"sketch.js">>

\* `// path` or `/* path */` and the content of the file
FileChunks(e) ==
  <<Chunk("file", e.key, <<>>, "")>> \o ContentChunks(e.content)

FilesChunks(es) == Join([i \in 1..Len(es) |-> FileChunks(es[i])])

\* buildCss: the runner's rules, then every *.css file in key order
buildCss(files) ==
  <<Chunk("rules", <<>>, <<>>, "__p5runner")>>
    \o FilesChunks(SelectSeq(files, IsCss))

\* buildJs: every *.js file in key order, sketch.js moved to the end
buildJsKeyOrder(files) == FilesChunks(SelectSeq(files, IsJs))

buildJs(files) ==
  LET paths == SelectSeq(files, IsJs)
      ordered == IF \E i \in 1..Len(paths) : IsSketch(paths[i])
                   THEN SelectSeq(paths, IsOther)
                          \o SelectSeq(paths, IsSketch)
                   ELSE paths
  IN FilesChunks(ordered)

\* src.includes("cdn.jsdelivr.net") || src.includes("p5") ||
\* src.startsWith("http") || src.startsWith("//")
KeptNone(src) == FALSE

Kept(src) ==
  \/ Includes(src, JsDelivrSegs)
  \/ Includes(src, P5Segs)
  \/ StartsWithHttp(src)
  \/ StartsWithTwoSlashes(src)

\* the keys tried for a script reference, in order
possibleKeys(src) ==
  LET normalizedSrc == StripSlashes(src)
  IN <<normalizedSrc, src, Base(normalizedSrc), src,
       <<"">> \o normalizedSrc, StripDot(normalizedSrc)>>

\* the first files[key] that is not undefined, or null
jsContentOf(src, files) ==
  LET keys == possibleKeys(src)
      hit(k) == Get(files, keys[k]) # Undefined
  IN IF \E k \in 1..Len(keys) : hit(k)
       THEN Get(files, keys[CHOOSE k \in 1..Len(keys) :
                              hit(k) /\ \A j \in 1..(k - 1) : ~hit(j)])
       ELSE Undefined

\* the callback of the script replacement for one script tag
replaceScript(tok, files) ==
  IF tok.t # "<script src>" \/ tok.src[Len(tok.src)] \notin JsSegs
    THEN tok
  ELSE IF Kept(tok.src) THEN tok
  ELSE LET jsContent == jsContentOf(tok.src, files)
       IN IF IsMarker(jsContent)
            THEN ScriptSrc(<<"", "file">> \o StripSlashes(tok.src))
          ELSE IF jsContent.kind = "text" /\ jsContent.chunks # <<>>
            THEN Holding("<script>", escape(jsContent.chunks))
          ELSE tok

\* uploadedFiles: the key of every marker and its file name
RECURSIVE uploadedFiles(_)
uploadedFiles(files) ==
  IF files = <<>> THEN <<>>
  ELSE LET e == Head(files)
       IN (IF IsMarker(e.content)
             THEN <<e.key>>
                    \o (IF Base(e.key) # e.key THEN <<Base(e.key)>>
                        ELSE <<>>)
             ELSE <<>>)
          \o uploadedFiles(Tail(files))

\* serverPath.startsWith("assets/") ? serverPath.substring(7)
\*                                  : serverPath.split("/").pop()
servedName(serverPath) ==
  IF Len(serverPath) >= 2 /\ serverPath[1] = "assets"
    THEN Tail(serverPath) ELSE Base(serverPath)

\* mapping[key] = value
SetKey(mapping, key, value) ==
  IF \E i \in 1..Len(mapping) : mapping[i].of = key
    THEN [i \in 1..Len(mapping) |->
            IF mapping[i].of = key
              THEN [mapping[i] EXCEPT !.to = value] ELSE mapping[i]]
    ELSE Append(mapping, Chunk("map", key, value, ""))

\* assetMapping: logical path and file name -> served file name
RECURSIVE assetMappingFrom(_, _)
assetMappingFrom(mapping, files) ==
  IF files = <<>> THEN mapping
  ELSE LET e == Head(files)
           fileName == servedName(e.content.server)
       IN assetMappingFrom(
            IF IsMarker(e.content)
              THEN SetKey(SetKey(mapping, e.key, fileName),
                          Base(e.key), fileName)
              ELSE mapping,
            Tail(files))

assetMappingByPathOnly(files) ==
  LET marked == SelectSeq(files, LAMBDA e : IsMarker(e.content))
  IN [i \in 1..Len(marked) |->
        Chunk("map", marked[i].key, servedName(marked[i].content.server), "")]

assetMapping(files) == assetMappingFrom(<<>>, files)

\* the asset server script with its two tables
AssetServer(files) ==
  Holding("asset-server",
          [i \in 1..Len(uploadedFiles(files)) |->
             Chunk("uploaded", uploadedFiles(files)[i], <<>>, "")]
            \o assetMapping(files))

\* the path segments that hold "p5.min.js" or "p5.js"
P5LibSegs == {"p5.js", "p5.min.js"}

\* a comment of the author that names the library
P5Comment == Tok("<!-- p5.js -->")

\* the text of the token holds "p5.min.js" or "p5.js": a script reference
\* with such a segment, the author's comment, and the asset server script,
\* whose own text has the comment "This must happen BEFORE p5.js script
\* runs"
MentionsP5(tok) ==
  \/ tok.t = "<script src>" /\ \E k \in 1..Len(tok.src) : tok.src[k] \in P5LibSegs
  \/ tok = P5Comment
  \/ tok.t = "asset-server"

\* html.includes("p5.min.js") || html.includes("p5.js")
includesP5(doc) == \E i \in 1..Len(doc) : MentionsP5(doc[i])

\* buildFromUserIndexHtml; <link> tags are not part of the documents
buildFromUserIndexHtml(toks, files, fitToFrame) ==
  LET h1 == IF FirstMatch(toks, HeadTest) = 0
              THEN InsertAfterFirst(toks, HtmlOpen,
                                    <<Tok("<head>"), Tok("</head>")>>)
              ELSE toks
      h2 == IF FirstMatch(h1, BodyTest) = 0
              THEN InsertAfterFirst(h1, HeadClose,
                                    <<Tok("<body>"), Tok("</body>")>>)
              ELSE h1
      h3 == InsertAfterFirst(h2, HeadOpen, <<ConsoleScript>>)
      h4 == IF fitToFrame
              THEN addClassToTag(addClassToTag(h3, HtmlOpen), BodyTest)
              ELSE h3
      h5 == [i \in 1..Len(h4) |-> replaceScript(h4[i], files)]
      h6 == IF uploadedFiles(files) # <<>>
              THEN InsertBeforeFirst(h5, HeadClose, <<AssetServer(files)>>)
              ELSE h5
  IN InsertBeforeFirst(h6, BodyClose,
                       IF includesP5(h6) THEN <<ThumbBridge>>
                       ELSE <<ThumbBridge, P5Cdn>>)

\* buildFallbackShell
buildFallbackShell(cssText, jsText) ==
  <<Tok("<html class=__p5runner>"), Tok("<head>"),
    Holding("<style>", cssText), Tok("</head>"),
    Tok("<body class=__p5runner>"), ThumbBridge, P5Cdn,
    Holding("<script>", escape(jsText)), Tok("</body>"), Tok("</html>")>>

\* buildSrcdoc
buildSrcdoc(in) ==
  IF in.index.has /\ NotBlank(in.index.toks)
    THEN buildFromUserIndexHtml(in.index.toks, in.files, in.fitToFrame)
    ELSE buildFallbackShell(buildCss(in.files), buildJs(in.files))

\* the document stop() loads
BlankDoc == <<Tok("<html>"), Tok("<body>"), Tok("</body>"), Tok("</html>")>>

\* no document is running: nothing was requested
NoNet == [isDev |-> FALSE, handed |-> <<>>]

\* no file set: the runner has assembled nothing
NoInput ==
  [index |-> [has |-> FALSE, toks |-> <<>>], files |-> <<>>,
   fitToFrame |-> FALSE]

\* an argument of run() with index.html
WithIndex(toks, files, fitToFrame) ==
  [index |-> [has |-> TRUE, toks |-> toks], files |-> files,
   fitToFrame |-> fitToFrame]

\* an argument of run() without index.html
WithoutIndex(files, fitToFrame) ==
  [index |-> [has |-> FALSE, toks |-> <<>>], files |-> files,
   fitToFrame |-> fitToFrame]

\* author documents of up to MaxDocLen tokens
RECURSIVE DocsUpTo(_)
DocsUpTo(n) ==
  IF n = 0 THEN {<<>>}
  ELSE LET shorter == DocsUpTo(n - 1)
       IN shorter \cup {Append(d, Tok(t)) : d \in shorter, t \in AuthorTags}

\* the sequences of up to n entries with different keys
RECURSIVE FilesUpTo(_, _)
FilesUpTo(n, entries) ==
  IF n = 0 THEN {<<>>}
  ELSE LET shorter == FilesUpTo(n - 1, entries)
       IN shorter \cup
            UNION {{Append(f, e) :
                      e \in {x \in entries : Get(f, x.key) = Undefined}} :
                   f \in shorter}

\* plain text in a file
Plain == TextContent(<<Code>>)

\* file sets of the fallback shell: scripts and a stylesheet in every key
\* order, sketch.js with and without closing script tags in its text
ShellEntries ==
  {Entry(<<k>>, Plain) : k \in {"sketch.js", "lib.js", "util.js", "style.css"}}
    \cup {Entry(<<"sketch.js">>, TextContent(<<Code, Close(c), Code>>)) :
            c \in ExactCloses \cup OtherCloses}

ShellFileSets ==
  {WithoutIndex(f, fit) :
     f \in FilesUpTo(MaxShellFiles, ShellEntries), fit \in BOOLEAN}

\* author documents made of tags, with and without a sketch
TagFileSets ==
  {WithIndex(d, f, fit) :
     d \in DocsUpTo(MaxDocLen),
     f \in {<<>>, <<Entry(<<"sketch.js">>, Plain)>>},
     fit \in BOOLEAN}

\* the script references of an author document: local paths, an absolute
\* URL, a protocol-relative URL, a module
Srcs ==
  {<<"lib.js">>, <<"", "lib.js">>, <<".", "lib.js">>, <<"js", "lib.js">>,
   <<"https:", "", "cdn.example.com", "lib.js">>,
   <<"", "", "cdn.example.com", "lib.js">>,
   <<"p5.sound.js">>, <<"http-client.js">>, <<"main.mjs">>}

\* what the file set may hold for them
ScriptKeys ==
  {<<"lib.js">>, <<"js", "lib.js">>, <<"p5.sound.js">>,
   <<"http-client.js">>, <<"main.mjs">>,
   <<"https:", "", "cdn.example.com", "lib.js">>}

ScriptContents ==
  {Plain, TextContent(<<>>), Marker(<<"assets", "lib9.js">>)}
    \cup {TextContent(<<Close(c), Code>>) : c \in {"</SCRIPT>", "</script >"}}

ScriptFileSets ==
  {WithIndex(<<Tok("<html>"), Tok("<head>"), ScriptSrc(src), Tok("</head>"),
               Tok("<body>"), Tok("</body>")>>, f, FALSE) :
     src \in Srcs,
     f \in FilesUpTo(MaxScriptFiles,
                     {Entry(k, c) : k \in ScriptKeys, c \in ScriptContents})}

\* the class attributes an author writes on <html> and <body>
AuthorAttrs ==
  {<<>>, <<ClassAttr("quoted", <<>>)>>, <<ClassAttr("quoted", <<"main">>)>>,
   <<ClassAttr("quoted", <<"main", "__p5fit">>)>>,
   <<ClassAttr("bare", <<"main">>)>>, <<ClassAttr("bare", <<"__p5fit">>)>>}

FitFileSets ==
  {WithIndex(<<Tag("<html>", a), Tok("<head>"), Tok("</head>"),
               Tag("<body>", b), Tok("</body>")>>, <<>>, fit) :
     a \in AuthorAttrs, b \in AuthorAttrs, fit \in BOOLEAN}

\* uploaded assets: logical paths, two of them with the same file name,
\* and the server paths of their markers
AssetKeys ==
  {<<"img", "cat.png">>, <<"pics", "cat.png">>, <<"cat.png">>,
   <<"dog.png">>}

ServerPaths == {<<"assets", "cat123.png">>, <<"uploads", "cat456.png">>}

AssetFileSets ==
  {WithIndex(<<Tok("<html>"), Tok("<head>"), Tok("</head>"),
               Tok("<body>"), Tok("</body>")>>, f, FALSE) :
     f \in FilesUpTo(MaxAssets,
                     {Entry(k, Marker(sp)) :
                        k \in AssetKeys, sp \in ServerPaths})
             \ {<<>>}}

\* author documents with and without a reference to the rendering
\* library, with and without a closing body tag, with and without an
\* uploaded asset in the file set
LibRefs ==
  {<<>>, <<P5Comment>>, <<ScriptSrc(<<"lib.js">>)>>,
   <<ScriptSrc(<<"p5.sound.js">>)>>, <<ScriptSrc(<<"libs", "p5.js">>)>>,
   <<ScriptSrc(<<"https:", "", "cdn.jsdelivr.net", "p5.min.js">>)>>}

LibFileSets ==
  {WithIndex(<<Tok("<html>"), Tok("<head>")>> \o r
               \o <<Tok("</head>"), Tok("<body>")>> \o c,
             f, fit) :
     r \in LibRefs, c \in {<<>>, <<Tok("</body>")>>},
     f \in {<<>>, <<Entry(<<"lib.js">>, Plain)>>,
            <<Entry(<<"cat.png">>, Marker(<<"assets", "cat123.png">>))>>},
     fit \in BOOLEAN}

\* the arguments of run()
FileSets ==
  ShellFileSets \cup TagFileSets \cup ScriptFileSets \cup FitFileSets
    \cup AssetFileSets

\* run({nodeId, files}): iframeEl.srcdoc = buildSrcdoc(...)
Runs ==
  /\ srcdoc' = buildSrcdoc(input)
  /\ UNCHANGED <<tile, run, ctx, toCtx, toHost, nodes, saveCb, observed,
                 asked, input, net, modal>>

\* stop()
Stops ==
  /\ srcdoc' = BlankDoc
  /\ UNCHANGED <<tile, run, ctx, toCtx, toHost, nodes, saveCb, observed,
                 asked, input, net, modal>>

\* ------------------------------------------------------------------------
\* The asset server script of the assembled document
\* ------------------------------------------------------------------------
\* the script is part of the document that runs
HasAssetServer == \E i \in 1..Len(srcdoc) : srcdoc[i].t = "asset-server"

\* the tables written into the script
ServerTables ==
  srcdoc[CHOOSE i \in 1..Len(srcdoc) : srcdoc[i].t = "asset-server"].body

\* new Set(uploadedFiles)
uploadedFilesSet ==
  {ServerTables[i].of :
     i \in {j \in 1..Len(ServerTables) : ServerTables[j].kind = "uploaded"}}

\* mapping[key], <<>> for undefined
MapGet(key) ==
  LET hits == {i \in 1..Len(ServerTables) :
                 ServerTables[i].kind = "map" /\ ServerTables[i].of = key}
  IN IF hits = {} THEN <<>> ELSE ServerTables[CHOOSE i \in hits : TRUE].to

\* a value is truthy: neither undefined nor the empty string
Truthy(v) == v # <<>> /\ v # EmptyPath

\* isUploadedFile(path)
isUploadedFile(path) ==
  IF ~Truthy(path) THEN FALSE
  ELSE LET normalized == StripEditor(StripSlashes(path))
           fileName == Base(normalized)
       IN \/ normalized \in uploadedFilesSet
          \/ fileName \in uploadedFilesSet
          \/ path \in uploadedFilesSet
          \/ Base(path) \in uploadedFilesSet

\* normalizeToFilePath(path)
normalizeByFullPathOnly(path) ==
  IF ~Truthy(path) THEN path
  ELSE LET normalized == StripEditor(StripSlashes(path))
       IN IF net.isDev
            THEN <<"", "api", "file">> \o normalized
            ELSE <<"", "assets">>
                   \o (IF Truthy(MapGet(normalized))
                         THEN MapGet(normalized) ELSE normalized)

normalizeToFilePath(path) ==
  IF ~Truthy(path) THEN path
  ELSE LET normalized == StripEditor(StripSlashes(path))
       IN IF net.isDev
            THEN <<"", "api", "file">> \o normalized
            ELSE LET actualFileName ==
                       IF Truthy(MapGet(normalized))
                         THEN MapGet(normalized)
                       ELSE IF Truthy(MapGet(Base(normalized)))
                         THEN MapGet(Base(normalized))
                       ELSE normalized
                 IN <<"", "assets">> \o actualFileName

\* the rewrite every avenue applies: resolve the path of an uploaded file
resolve(path) ==
  IF isUploadedFile(path) THEN normalizeToFilePath(path) ELSE path

\* the test in front of the rewrite in XMLHttpRequest.open and fetch
Guarded(url) ==
  StartsWithHttp(url) \/ StartsWithData(url) \/ StartsWithFile(url)

\* img.src.includes("/file/")
IncludesFile(path) == \E i \in 2..(Len(path) - 1) : path[i] = "file"

\* what each avenue hands to the original primitive for a path
handedBy(via, path) ==
  CASE via \in {"xhr", "fetch"} ->
         IF Guarded(path) THEN path ELSE resolve(path)
    [] via \in {"loadImage", "imageSrc", "imgAdded"} -> resolve(path)
    [] via = "imgFixed" ->
         IF IncludesFile(path) THEN path ELSE resolve(path)

\* the paths a sketch asks for: assets by bare name, by logical path, with
\* a leading slash or the editor/ prefix, a file that was not uploaded, an
\* external URL with the file name of an asset, a data URI, a retrieval
\* path
AskedPaths ==
  {<<"cat.png">>, <<"img", "cat.png">>, <<"", "editor", "img", "cat.png">>,
   <<"pics", "cat.png">>, <<"other.png">>,
   <<"https:", "", "example.com", "cat.png">>, <<"data:image">>,
   <<"", "file", "cat.png">>}

\* p5 passes the path loadImage was given on to fetch and to an Image, so
\* a path that was handed to a primitive may be asked for again
Requestable ==
  AskedPaths \cup {net.handed[i].out : i \in 1..Len(net.handed)}

\* a request of the running document through an avenue
Request(via, path) ==
  /\ HasAssetServer
  /\ Len(net.handed) < MaxHanded
  /\ path \in Requestable
  /\ net' = [net EXCEPT !.handed =
               Append(@, [via |-> via, in |-> path,
                          out |-> handedBy(via, path)])]
  /\ UNCHANGED <<tile, run, ctx, toCtx, toHost, nodes, saveCb, observed,
                 asked, input, srcdoc, modal>>

\* xhr.open(method, url)
XhrOpen == \E path \in Requestable : Request("xhr", path)

\* fetch(input)
Fetch == \E path \in Requestable : Request("fetch", path)

\* loadImage(path)
LoadImage == \E path \in Requestable : Request("loadImage", path)

\* new Image().src = value
ImageSrc == \E path \in Requestable : Request("imageSrc", path)

\* fixExistingImages: an img element of the document
ImgFixed == \E path \in Requestable : Request("imgFixed", path)

\* the MutationObserver: an img element added later
ImgAdded == \E path \in Requestable : Request("imgAdded", path)

\* ------------------------------------------------------------------------
\* Specifications
\* ------------------------------------------------------------------------
\* ------------------------------------------------------------------------
\* The viewer modal (modal.js, viewerPanel.js, upload.js)
\* ------------------------------------------------------------------------
\* modalEl without the class "open", currentPanel = null
NoModal == [open |-> FALSE, currentPanel |-> Null, panels |-> <<>>]

\* the object createViewerPanel returns: el, footerEl and cleanup, no
\* onOpen and no onClose; the k-th panel has the k-th upload session.
\* cleanups counts the calls of cleanupViewerAssets with its session,
\* pending the requests in flight, results the settled promises of
\* cleanupViewerAssets, continued the calls of onRequestClose, removed
\* whether the panel was taken out of the modal
createViewerPanel(k) ==
  [sessionId |-> k, onClose |-> FALSE, cleanups |-> 0, pending |-> 0,
   results |-> <<>>, warned |-> 0, continued |-> 0, removed |-> FALSE]

\* currentPanel?.onClose is missing on a viewer panel; bodyEl.innerHTML =
\* "" takes the panel out of the modal
dropCurrent(m) ==
  IF m.currentPanel = Null THEN m
  ELSE [m EXCEPT !.panels[m.currentPanel].removed = TRUE,
                 !.panels[m.currentPanel].cleanups =
                    IF m.panels[m.currentPanel].onClose THEN @ + 1 ELSE @,
                 !.currentPanel = Null]

\* openModal({ panel }) with a panel just created
openModal(m) ==
  LET old == dropCurrent(m)
      k == Len(m.panels) + 1
  IN [old EXCEPT !.panels = Append(old.panels, createViewerPanel(k)),
                 !.currentPanel = k, !.open = TRUE]

closeModal(m) ==
  IF ~m.open THEN m
  ELSE [dropCurrent(m) EXCEPT !.open = FALSE]

\* the requests to /api/cleanup-viewer end with a response (of any
\* status) or with a network error, which rejects the promise of fetch
Outcomes == {"ok", "status", "network"}

fetchResult(outcome) ==
  IF outcome = "network" THEN "rejected" ELSE "fulfilled"

\* cleanupViewerAssets without its try/catch
cleanupNoCatch(outcome) == fetchResult(outcome)

\* the promise of cleanupViewerAssets once its fetch has settled: a
\* rejection of fetch is caught and logged with console.warn
cleanupViewerAssets(outcome) ==
  IF fetchResult(outcome) = "rejected" THEN "fulfilled"
  ELSE fetchResult(outcome)

\* onNodeClick on a node that is not a star
OnNodeClick ==
  /\ Len(modal.panels) < MaxPanels
  /\ modal' = openModal(modal)
  /\ UNCHANGED <<tile, run, ctx, toCtx, toHost, nodes, saveCb, observed,
                 asked, input, srcdoc, net>>

\* a click on the Close button in the footer of the modal: closeAndCleanup
\* up to its await
ClickClose ==
  /\ modal.open
  /\ modal.currentPanel # Null
  /\ modal.panels[modal.currentPanel].cleanups < MaxClicks
  /\ modal' = [modal EXCEPT !.panels[modal.currentPanel].cleanups = @ + 1,
                            !.panels[modal.currentPanel].pending = @ + 1]
  /\ UNCHANGED <<tile, run, ctx, toCtx, toHost, nodes, saveCb, observed,
                 asked, input, srcdoc, net>>

\* the request of a panel settles: cleanupViewerAssets finishes, and
\* closeAndCleanup goes on to onRequestClose, whatever the promise was
CleanupSettles(k, outcome) ==
  /\ k \in 1..Len(modal.panels)
  /\ modal.panels[k].pending > 0
  /\ LET done == [modal EXCEPT
                    !.panels[k].pending = @ - 1,
                    !.panels[k].results =
                       Append(@, cleanupViewerAssets(outcome)),
                    !.panels[k].warned =
                       IF fetchResult(outcome) = "rejected" THEN @ + 1
                       ELSE @,
                    !.panels[k].continued = @ + 1]
     IN modal' = closeModal(done)
  /\ UNCHANGED <<tile, run, ctx, toCtx, toHost, nodes, saveCb, observed,
                 asked, input, srcdoc, net>>

\* keydown with the Escape key
Escape ==
  /\ modal' = IF modal.open THEN closeModal(modal) ELSE modal
  /\ UNCHANGED <<tile, run, ctx, toCtx, toHost, nodes, saveCb, observed,
                 asked, input, srcdoc, net>>

Init ==
  /\ tile = [t \in Tiles |-> InitTile]
  /\ run = [t \in Tiles |-> [s \in Sids |-> NoRunner]]
  /\ ctx = [t \in Tiles |-> NoCtx]
  /\ toCtx = [t \in Tiles |-> <<>>]
  /\ toHost = [t \in Tiles |-> <<>>]
  /\ nodes = [t \in Tiles |-> InitPath]
  /\ saveCb \in BOOLEAN
  /\ observed = [t \in Tiles |-> <<>>]
  /\ asked = <<>>
  /\ input = NoInput
  /\ srcdoc = <<>>
  /\ net = NoNet
  /\ modal = NoModal

\* a document whose sketch never creates a canvas
BlankDocument(t) ==
  \/ ScriptRuns(t) \/ LoadEvent(t) \/ DimsInterval(t)
  \/ BridgeReceives(t) \/ MessageUnheard(t)
  \/ \E k \in 1..MaxReqs : PollTick(t, k)

Document(t) ==
  \/ ScriptRuns(t) \/ LoadEvent(t) \/ DimsInterval(t) \/ DimsFrame(t)
  \/ CanvasAppears(t) \/ CanvasRemoved(t)
  \/ BridgeReceives(t) \/ MessageUnheard(t)
  \/ \E k \in 1..MaxReqs : PollTick(t, k) \/ ThumbFrame(t, k)

Timers(t) == \E s \in Sids : WaitElapsed(t, s) \/ Timeout(t, s)

\* one star tile is visited by the pointer
Next ==
  \/ MouseEnter("a", MaxSessions) \/ MouseLeave("a")
  \/ Timers("a")
  \/ SaveSettled("a")
  \/ Deliver("a")
  \/ Document("a")

Spec == Init /\ [][Next]_vars

\* timers fire and the persistence callback settles. WaitElapsed and
\* Timeout clear the flag of their timer, so each is enabled exactly when
\* its timer is pending, and weak fairness of each is written with that
\* state predicate in the place of ENABLED
Fairness ==
  /\ \A s \in Sids :
       /\ \/ []<>(~WaitPending("a", s))
          \/ []<><<WaitElapsed("a", s)>>_vars
       /\ \/ []<>(~TimeoutPending("a", s))
          \/ []<><<Timeout("a", s)>>_vars
  /\ WF_vars(SaveSettled("a"))

FairSpec == Spec /\ Fairness

\* two star tiles are visited; their sketches create no canvas
NextPair ==
  \E t \in Tiles :
    \/ MouseEnter(t, MaxPairSessions) \/ MouseLeave(t)
    \/ Timers(t)
    \/ Deliver(t)
    \/ BlankDocument(t)

InitPair == Init /\ saveCb = FALSE

SpecPair == InitPair /\ [][NextPair]_vars

\* a controller created on an iframe, its document set by run(), and one
\* observer registered per message kind
InitClient ==
  /\ tile = [t \in Tiles |->
       IF t = "a" THEN [InitTile EXCEPT !.iframe = 1, !.attached = {1},
                                        !.runner = 1, !.mounts = 1]
       ELSE InitTile]
  /\ run = [t \in Tiles |-> [s \in Sids |->
       IF t = "a" /\ s = 1
         THEN [createP5Runner EXCEPT !.thumbHandlers = <<"obsThumb">>,
                                     !.errorHandlers = <<"obsErr">>,
                                     !.canvasDimHandlers = <<"obsDim">>]
         ELSE NoRunner]]
  /\ ctx = [t \in Tiles |-> IF t = "a" THEN NewCtx(1) ELSE NoCtx]
  /\ toCtx = [t \in Tiles |-> <<>>]
  /\ toHost = [t \in Tiles |-> <<>>]
  /\ nodes = [t \in Tiles |-> InitPath]
  /\ saveCb = FALSE
  /\ observed = [t \in Tiles |-> <<>>]
  /\ asked = <<>>
  /\ input = NoInput
  /\ srcdoc = <<>>
  /\ net = NoNet
  /\ modal = NoModal

NextClient ==
  \/ \E n \in Nonces : ClientRequests(n)
  \/ Deliver("a")
  \/ Document("a")

SpecClient == InitClient /\ [][NextClient]_vars

\* a runner without a document, its observers registered by the client
InitObservers ==
  /\ tile = [t \in Tiles |->
       IF t = "a" THEN [InitTile EXCEPT !.iframe = 1, !.attached = {1},
                                        !.runner = 1, !.mounts = 1]
       ELSE InitTile]
  /\ run = [t \in Tiles |-> [s \in Sids |->
       IF t = "a" /\ s = 1 THEN createP5Runner ELSE NoRunner]]
  /\ ctx = [t \in Tiles |-> NoCtx]
  /\ toCtx = [t \in Tiles |-> <<>>]
  /\ toHost = [t \in Tiles |-> <<>>]
  /\ nodes = [t \in Tiles |-> InitPath]
  /\ saveCb = FALSE
  /\ observed = [t \in Tiles |-> <<>>]
  /\ asked = <<>>
  /\ input = NoInput
  /\ srcdoc = <<>>
  /\ net = NoNet
  /\ modal = NoModal

NextObservers ==
  \/ \E tag \in Tags, h \in Observers :
       Subscribes(tag, h) \/ Unsubscribes(tag, h)
  \/ Destroys
  \/ \E d \in Payloads : Injects(d)
  \/ Deliver("a")

SpecObservers == InitObservers /\ [][NextObservers]_vars

\* a runner that is given a file set and assembles its document
InitAssembly ==
  /\ tile = [t \in Tiles |-> InitTile]
  /\ run = [t \in Tiles |-> [s \in Sids |-> NoRunner]]
  /\ ctx = [t \in Tiles |-> NoCtx]
  /\ toCtx = [t \in Tiles |-> <<>>]
  /\ toHost = [t \in Tiles |-> <<>>]
  /\ nodes = [t \in Tiles |-> InitPath]
  /\ saveCb = FALSE
  /\ observed = [t \in Tiles |-> <<>>]
  /\ asked = <<>>
  /\ input \in FileSets
  /\ srcdoc = <<>>
  /\ net = NoNet
  /\ modal = NoModal

NextAssembly == Runs \/ Stops

SpecAssembly == InitAssembly /\ [][NextAssembly]_vars

\* a document with uploaded assets is assembled and asks for files; the
\* page is served by the development server or in production
InitAssets ==
  /\ tile = [t \in Tiles |-> InitTile]
  /\ run = [t \in Tiles |-> [s \in Sids |-> NoRunner]]
  /\ ctx = [t \in Tiles |-> NoCtx]
  /\ toCtx = [t \in Tiles |-> <<>>]
  /\ toHost = [t \in Tiles |-> <<>>]
  /\ nodes = [t \in Tiles |-> InitPath]
  /\ saveCb = FALSE
  /\ observed = [t \in Tiles |-> <<>>]
  /\ asked = <<>>
  /\ input \in AssetFileSets
  /\ srcdoc = <<>>
  /\ net \in {[isDev |-> d, handed |-> <<>>] : d \in BOOLEAN}
  /\ modal = NoModal

NextAssets ==
  Runs \/ XhrOpen \/ Fetch \/ LoadImage \/ ImageSrc \/ ImgFixed \/ ImgAdded

SpecAssets == InitAssets /\ [][NextAssets]_vars

\* a runner with a console observer and its running document
InitConsole ==
  /\ tile = [t \in Tiles |->
       IF t = "a" THEN [InitTile EXCEPT !.iframe = 1, !.attached = {1},
                                        !.runner = 1, !.mounts = 1]
       ELSE InitTile]
  /\ run = [t \in Tiles |-> [s \in Sids |->
       IF t = "a" /\ s = 1
         THEN subscribe(createP5Runner, "CONSOLE_LOG", "obsConsole")
         ELSE NoRunner]]
  /\ ctx = [t \in Tiles |-> IF t = "a" THEN NewCtx(1) ELSE NoCtx]
  /\ toCtx = [t \in Tiles |-> <<>>]
  /\ toHost = [t \in Tiles |-> <<>>]
  /\ nodes = [t \in Tiles |-> InitPath]
  /\ saveCb = FALSE
  /\ observed = [t \in Tiles |-> <<>>]
  /\ asked = <<>>
  /\ input = NoInput
  /\ srcdoc = <<>>
  /\ net = NoNet
  /\ modal = NoModal

NextConsole ==
  \/ \E level \in Levels, args \in ArgLists(MaxArgs) :
       ConsoleCalls(level, args)
  \/ Deliver("a")
  \/ Destroys

SpecConsole == InitConsole /\ [][NextConsole]_vars

\* a runner with a console observer and a document whose code fails
NextErrors ==
  \/ \E f \in AuthorFailures : AuthorFails(f)
  \/ Deliver("a")
  \/ Destroys

SpecErrors == InitConsole /\ [][NextErrors]_vars

\* the viewer: nodes are clicked, the panel is closed
NextModal ==
  \/ OnNodeClick
  \/ ClickClose
  \/ \E k \in 1..MaxPanels, outcome \in Outcomes : CleanupSettles(k, outcome)
  \/ Escape

SpecModal == Init /\ [][NextModal]_vars

\* documents with a script reference are assembled on a page served in
\* development or in production mode
InitRoutes ==
  /\ tile = [t \in Tiles |-> InitTile]
  /\ run = [t \in Tiles |-> [s \in Sids |-> NoRunner]]
  /\ ctx = [t \in Tiles |-> NoCtx]
  /\ toCtx = [t \in Tiles |-> <<>>]
  /\ toHost = [t \in Tiles |-> <<>>]
  /\ nodes = [t \in Tiles |-> InitPath]
  /\ saveCb = FALSE
  /\ observed = [t \in Tiles |-> <<>>]
  /\ asked = <<>>
  /\ input \in ScriptFileSets
  /\ srcdoc = <<>>
  /\ net \in {[isDev |-> d, handed |-> <<>>] : d \in BOOLEAN}
  /\ modal = NoModal

NextRoutes == Runs \/ Stops

SpecRoutes == InitRoutes /\ [][NextRoutes]_vars

\* documents with and without the rendering library are assembled
InitLibrary ==
  /\ tile = [t \in Tiles |-> InitTile]
  /\ run = [t \in Tiles |-> [s \in Sids |-> NoRunner]]
  /\ ctx = [t \in Tiles |-> NoCtx]
  /\ toCtx = [t \in Tiles |-> <<>>]
  /\ toHost = [t \in Tiles |-> <<>>]
  /\ nodes = [t \in Tiles |-> InitPath]
  /\ saveCb = FALSE
  /\ observed = [t \in Tiles |-> <<>>]
  /\ asked = <<>>
  /\ input \in LibFileSets
  /\ srcdoc = <<>>
  /\ net = NoNet
  /\ modal = NoModal

SpecLibrary == InitLibrary /\ [][NextAssembly]_vars

\* the document's timers and animation frames run
FairSpecClient ==
  /\ SpecClient
  /\ \A k \in 1..MaxReqs :
       WF_vars(PollTick("a", k)) /\ WF_vars(ThumbFrame("a", k))

\* ------------------------------------------------------------------------
\* Properties
\* ------------------------------------------------------------------------
Reqs == ctx["a"].reqs

\* the replies posted for a request: none while it polls or waits for its
\* frame, one once it has ended
OneReplyEach ==
  \A k \in 1..Len(Reqs) :
    Reqs[k].replies = (IF Reqs[k].phase = "done" THEN 1 ELSE 0)

\* C1: every REQ_THUMB the bridge of a live document receives is answered
\* by exactly one thumbnail reply: at no time has a request more than one
\* reply, a request still polling has none, and every request ends, with
\* the surface absent, appearing, disappearing again or the encoding
\* throwing
C1_ExactlyOneReply ==
  /\ []OneReplyEach
  /\ \A k \in 1..MaxReqs :
       (Len(Reqs) >= k) ~> (Len(Reqs) >= k /\ Reqs[k].phase = "done")

\* two requests answered for different reasons: the polling budget ran
\* out, and the surface was gone at the frame after it had been found
C1_Witness ==
  /\ Len(Reqs) = 2
  /\ \A k \in 1..2 : Reqs[k].phase = "done" /\ Reqs[k].replies = 1
  /\ \E i, j \in 1..Len(toHost["a"]) :
       /\ toHost["a"][i].why = "Canvas not created in time"
       /\ toHost["a"][j].why = "No canvas found"

\* the nonce a reply to a call with argument n has to carry
Echo(n) == IF n = "undefined" THEN "null" ELSE n

\* C8: every thumbnail reply carries the nonce of the requestThumbnail
\* call that caused it, null when the call passed none, and the host's
\* observers are called with that nonce
C8_NonceEchoed ==
  /\ \A i \in 1..Len(toHost["a"]) :
       LET m == toHost["a"][i]
       IN IsThumbReply(m) => m.nonce = Echo(asked[m.req])
  /\ \A i \in 1..Len(observed["a"]) :
       LET o == observed["a"][i]
       IN o.type \in {"P5_THUMB", "P5_THUMB_ERR"} =>
            o.nonce = Echo(asked[o.req])

\* n1 was requested with no surface and failed when the polling budget
\* ran out, n2 was requested after the surface was created and succeeded
C8_Witness ==
  /\ asked = <<"n1", "n2">>
  /\ \E i, j \in 1..Len(toHost["a"]) :
       /\ i < j
       /\ toHost["a"][i].type = "P5_THUMB_ERR"
       /\ toHost["a"][i].nonce = "n1"
       /\ toHost["a"][i].why = "Canvas not created in time"
       /\ toHost["a"][j].type = "P5_THUMB"
       /\ toHost["a"][j].nonce = "n2"

Own(t, s) == <<t, s>>
ByTimeout == <<"timeout", 0>>
ByNobody == <<"none", 0>>

\* C2: the promise of requestThumbOnce is resolved at most once, by a
\* thumbnail reply, an error reply or the timer; it is resolved by the time
\* its timer has fired, so it is unresolved only while the timer is
\* pending, and a later reply or the later timer does not resolve it again
C2_ResolvesOnce ==
  \A t \in Tiles : \A s \in Sids :
    LET r == run[t][s]
    IN /\ r.resolves <= 1
       /\ r.done = "yes" <=> r.resolves = 1
       /\ r.done = "yes" <=> r.by # ByNobody
       /\ r.done = "no" => r.timer

\* a reply resolved the promise and the timer fired afterwards
C2_Witness ==
  \E s \in Sids :
    /\ run["a"][s].done = "yes" /\ run["a"][s].by = Own("a", s)
    /\ ~run["a"][s].timer /\ run["a"][s].resolves = 1

IdleBase(t) ==
  /\ ~tile[t].hovering /\ ~tile[t].capturing
  /\ tile[t].iframe = Null /\ tile[t].runner = Null
  /\ ~tile[t].expanded

\* C3: once the pointer has left, the tile comes back to Idle at its base
\* size with no iframe and no runner, whether the capture ends with a
\* thumbnail, an error or the timeout
C3_HoverCycleReturns == (~tile["a"].hovering) ~> IdleBase("a")

\* back in Idle after a capture that ended by the timeout
C3_Witness ==
  /\ IdleBase("a") /\ tile["a"].mounts = 1
  /\ run["a"][1].by = ByTimeout

\* C4: between handlers a session (iframe and runner) exists exactly when
\* the tile is hovering or capturing, and never both flags are set
C4_SessionIffActive ==
  \A t \in Tiles :
    /\ (tile[t].iframe # Null /\ tile[t].runner # Null)
         <=> (tile[t].hovering \/ tile[t].capturing)
    /\ ~(tile[t].hovering /\ tile[t].capturing)

\* capturing, between the reply and the end of the persistence callback
C4_Witness ==
  /\ tile["a"].capturing /\ tile["a"].pc = "awaitSave"
  /\ tile["a"].iframe = 2 /\ tile["a"].runner = 2

Listening(t) == {s \in Sids : run[t][s].listening}

AtMostOne(t) ==
  /\ Cardinality(tile[t].attached) <= 1
  /\ Cardinality(Listening(t)) <= 1
  /\ ctx[t].alive => tile[t].attached = {ctx[t].sid}

\* C5: a tile has at most one iframe attached, at most one runner
\* listening and at most one document, and a mount happens only when
\* none of them exists
C5_AtMostOneContext ==
  /\ [](\A t \in Tiles : AtMostOne(t))
  /\ [][\A t \in Tiles :
          tile'[t].mounts # tile[t].mounts =>
            /\ tile[t].attached = {} /\ Listening(t) = {}
            /\ ~ctx[t].alive]_vars

\* the second session of a tile, after the first was torn down
C5_Witness ==
  /\ tile["a"].attached = {2} /\ Listening("a") = {2}
  /\ ctx["a"].alive /\ ctx["a"].sid = 2

\* C6: a pointer-enter on a tile that is not Idle and a pointer-leave on a
\* tile that is Idle change nothing: no context, no message, no flag, no
\* size
C6_RedundantHoverNoop ==
  [][/\ (Phase("a") # "Idle" /\ MouseEnter("a", MaxSessions))
          => UNCHANGED vars
     /\ (Phase("a") = "Idle" /\ MouseLeave("a"))
          => UNCHANGED vars]_vars

\* a capturing tile, where a pointer-enter can arrive
C6_Witness ==
  /\ Phase("a") = "Capturing" /\ tile["a"].pc = "awaitThumb"
  /\ ENABLED MouseEnter("a", MaxSessions)

\* C7: a pending capture is resolved only by the timer or by the reply to
\* its own request
C7_OwnReplyOnly ==
  \A t \in Tiles : \A s \in Sids :
    run[t][s].by \in {ByNobody, ByTimeout, Own(t, s)}

\* a reply is late when the capture of its session is resolved or the
\* runner of its session is destroyed
Late(m) ==
  \/ run[m.nodeId][m.sid].done = "yes"
  \/ ~run[m.nodeId][m.sid].listening

Shown(t) ==
  <<Phase(t), tile[t].pc, tile[t].backgroundImage, tile[t].expanded>>

\* C9: the delivery of a late reply runs no observer of its session and
\* leaves phase, image and size of the tile as they are
C9_LateReplyIgnored ==
  [][\A t \in Tiles :
       (/\ toHost[t] # <<>>
        /\ toHost'[t] = Tail(toHost[t])
        /\ IsThumbReply(Head(toHost[t]))
        /\ Late(Head(toHost[t])))
       => /\ run'[t][Head(toHost[t]).sid] = run[t][Head(toHost[t]).sid]
          /\ Shown(t)' = Shown(t)]_vars

Torn(t) ==
  /\ tile[t].iframe = Null /\ tile[t].runner = Null
  /\ tile[t].attached = {} /\ Listening(t) = {}
  /\ ~ctx[t].alive

\* C10: when capturing is cleared the runner's listener is removed, the
\* iframe is detached and both variables are null; a resolved capture
\* always gets there, whatever the persistence callback does; and the next
\* mount creates an iframe and a runner that did not exist before
C10_DestroyedAfterCapture ==
  /\ [][\A t \in Tiles :
          /\ (tile[t].capturing /\ ~tile'[t].capturing) => Torn(t)'
          /\ (tile[t].iframe = Null /\ tile'[t].iframe # Null) =>
               /\ tile'[t].iframe > tile[t].mounts
               /\ tile'[t].runner = tile'[t].iframe
               /\ Listening(t)' = {tile'[t].iframe}
               /\ ctx'[t] = NewCtx(tile'[t].iframe)]_vars
  /\ (tile["a"].capturing /\ tile["a"].pc = "awaitSave")
       ~> Torn("a")

\* mounted again after a capture that went through the persistence
\* callback
C10_Witness ==
  /\ saveCb /\ run["a"][1].by = Own("a", 1)
  /\ tile["a"].iframe = 2 /\ tile["a"].runner = 2

\* a step that delivers a message of the given type to the host window
Delivers(type) ==
  \E u \in Tiles :
    /\ toHost[u] # <<>> /\ toHost'[u] = Tail(toHost[u])
    /\ Head(toHost[u]).type = type

\* a step in which the capture of session s of tile t is resolved
Resolved(t, s) == run[t][s].done = "no" /\ run'[t][s].done = "yes"

\* C11: when a capture is resolved by the timer or by an error reply, the
\* persistence callback is not called, the source node keeps its path and
\* the tile is Idle showing the thumbnail path of its source node
C11_FailureKeepsPrevious ==
  [][\A t \in Tiles : \A s \in Sids :
       (Resolved(t, s) /\
          (run'[t][s].by = ByTimeout \/ Delivers("P5_THUMB_ERR")))
       => /\ tile'[t].pc = "idle" /\ ~tile'[t].capturing
          /\ tile'[t].dataUrl = NoImg
          /\ nodes' = nodes
          /\ tile'[t].backgroundImage = nodes[t]]_vars

\* a tile with a persistence callback, Idle after a capture that timed out,
\* showing the path of its source node
C11_Witness ==
  /\ saveCb /\ run["a"][1].by = ByTimeout
  /\ tile["a"].pc = "idle" /\ ~tile["a"].capturing /\ tile["a"].mounts = 1
  /\ tile["a"].backgroundImage = InitPath /\ nodes["a"] = InitPath

\* the image carried by the P5_THUMB whose delivery is this step
DeliveredImage ==
  LET u == CHOOSE u \in Tiles :
             /\ toHost[u] # <<>> /\ toHost'[u] = Tail(toHost[u])
             /\ Head(toHost[u]).type = "P5_THUMB"
  IN <<Head(toHost[u]).nodeId, Head(toHost[u]).sid>>

\* C12: when a capture was resolved with an image, the tile shows that
\* image once capturing is cleared: in the step of the reply when no
\* persistence callback is called, in the step that settles the callback
\* otherwise, whatever the callback returns
C12_SuccessShowsCapture ==
  [][\A t \in Tiles :
       /\ (tile[t].pc = "awaitSave" /\ ~tile'[t].capturing)
            => tile'[t].backgroundImage = tile[t].dataUrl
       /\ ((\E s \in Sids : Resolved(t, s)) /\ Delivers("P5_THUMB")
             /\ ~tile'[t].capturing)
            => tile'[t].backgroundImage = DeliveredImage]_vars

\* request k of the document in slot "a" before it is received
Unreceived == [phase |-> "new", tries |-> 0, replies |-> 0]

Req(k) == IF k <= Len(Reqs) THEN Reqs[k] ELSE Unreceived

\* the messages the document in slot "a" posts in this step
PostedNow ==
  IF Len(toHost'["a"]) > Len(toHost["a"])
    THEN SubSeq(toHost'["a"], Len(toHost["a"]) + 1, Len(toHost'["a"]))
    ELSE <<>>

GaveUp(k) ==
  \E i \in 1..Len(PostedNow) :
    /\ PostedNow[i].why = "Canvas not created in time"
    /\ PostedNow[i].req = Req(k)'.call

\* C13: a request is checked at once and then on every 50 ms timer, 20
\* times at most; the 'not created in time' failure is posted by the 20th
\* check that finds no canvas and by no earlier one; a check that finds a
\* canvas ends the polling without a message, and the animation frame it
\* requests produces the reply
C13_PollingBudget ==
  /\ [](\A k \in 1..Len(Reqs) : Reqs[k].tries < maxTries)
  /\ [][\A k \in 1..MaxReqs :
          (k <= Len(Reqs') /\ Req(k)' # Req(k)) =>
            /\ Req(k).phase \in {"new", "poll"} =>
                 /\ Req(k)'.phase = "poll" =>
                      /\ ~ctx["a"].canvas /\ PostedNow = <<>>
                      /\ Req(k)'.tries = Req(k).tries + 1
                 /\ Req(k)'.phase = "raf" =>
                      ctx["a"].canvas /\ PostedNow = <<>>
                 /\ Req(k)'.phase = "done" =>
                      /\ ~ctx["a"].canvas /\ GaveUp(k)
                      /\ Req(k).tries = maxTries - 1
                      /\ Req(k)'.replies = 1
            /\ Req(k).phase = "raf" =>
                 /\ Req(k)'.phase = "done" /\ Req(k)'.replies = 1
                 /\ Replies(PostedNow) = 1 /\ ~GaveUp(k)
            /\ Req(k).phase # "done"]_vars

\* 19 checks found no canvas and the canvas is there for the 20th
C13_Witness ==
  /\ Len(Reqs) = 1 /\ Reqs[1].phase = "poll"
  /\ Reqs[1].tries = maxTries - 1 /\ ctx["a"].canvas

Failures == {"No canvas found", "Canvas not created in time", "exception"}

\* a thumbnail reply is an image or a failure with its reason, never both
WellFormedReply(m) ==
  /\ m.type = "P5_THUMB" <=> m.why = "ok"
  /\ m.type = "P5_THUMB_ERR" <=> m.why \in Failures
  /\ m.nonce = Echo(asked[m.req])

\* C14: a capture that fails in the document (no canvas at the frame, no
\* canvas within the polling budget, the encoding throwing) is posted as
\* P5_THUMB_ERR with its reason and the nonce of the request, never as
\* P5_THUMB, it is the single reply of its request, and its delivery calls
\* the error observers of the runner with that nonce and no thumbnail
\* observer
C14_FailuresAreErrors ==
  /\ [](\A i \in 1..Len(toHost["a"]) :
          IsThumbReply(toHost["a"][i]) => WellFormedReply(toHost["a"][i]))
  /\ [][/\ \A i \in 1..Len(PostedNow) :
             IsThumbReply(PostedNow[i]) =>
               /\ WellFormedReply(PostedNow[i])
               /\ ~ctx["a"].canvas => PostedNow[i].type = "P5_THUMB_ERR"
               /\ PostedNow[i].type = "P5_THUMB" => ctx["a"].canvas
        /\ Delivers("P5_THUMB_ERR") =>
             observed'["a"] =
               <<[h |-> "obsErr", type |-> "P5_THUMB_ERR",
                  nonce |-> Head(toHost["a"]).nonce,
                  req |-> Head(toHost["a"]).req]>>]_vars

\* the error observer was called for the failure of the first request
\* while the failure of an encoding that threw, for the second, is on its
\* way
C14_Witness ==
  /\ Len(observed["a"]) = 1 /\ observed["a"][1].h = "obsErr"
  /\ observed["a"][1].req = 1
  /\ \E i \in 1..Len(toHost["a"]) :
       /\ toHost["a"][i].type = "P5_THUMB_ERR"
       /\ toHost["a"][i].why = "exception"
       /\ toHost["a"][i].req = 2

\* the P5_CANVAS_DIM messages among those posted in this step
DimsPosted ==
  Len(PostedNow) - Replies(PostedNow)

\* the step is the animation frame requested by trySendCanvasDims
PollFrame == ctx["a"].dimsRaf /\ ~ctx'["a"].dimsRaf

\* the dimension poll sends nothing while there is no canvas, asks for its
\* one animation frame when it first sees the canvas, never asks again,
\* and its interval ends once it has seen the canvas
PollReportsAtMostOnce ==
  /\ (DimsPosted > 0 /\ Replies(PostedNow) = 0) =>
       PollFrame /\ ctx["a"].canvas /\ DimsPosted = 1
  /\ (~ctx["a"].dimsRaf /\ ctx'["a"].dimsRaf) =>
       ctx["a"].canvas /\ ~ctx["a"].dimsSent /\ ctx'["a"].dimsSent
  /\ ctx["a"].dimsSent => ctx'["a"].dimsSent
  /\ (ctx["a"].dimsSent /\ ~ctx["a"].interval) => ~ctx'["a"].interval

\* C15: the dimension poll reports the canvas the first time it sees it:
\* the frame it requests then posts P5_CANVAS_DIM, once for the document,
\* whether the interval or the load event saw the canvas, and it posts
\* nothing while there is no canvas
C15_DimsReportedOnce ==
  [][/\ PollReportsAtMostOnce
     /\ PollFrame => DimsPosted = 1]_vars

\* the runner of the observer client
Ctl == run["a"][1]

\* C16: destroy() leaves the four handler sets empty and the runner
\* without its listener for good; from then on the delivery of a message
\* calls no observer, whether registered before or after destroy(), and
\* changes nothing in the runner
C16_DestroySilences ==
  [][/\ (Ctl.listening /\ ~Ctl'.listening) => Registered(Ctl') = 0
     /\ ~Ctl.listening =>
          /\ ~Ctl'.listening
          /\ observed'["a"] \in {observed["a"], <<>>}
          /\ toHost'["a"] # toHost["a"] /\ toHost["a"] # <<>> =>
               observed'["a"] = <<>> /\ run' = run]_vars

\* a thumbnail message on its way to a destroyed runner on which an
\* observer was registered after destroy()
C16_Witness ==
  /\ ~Ctl.listening /\ Ctl.thumbHandlers = <<"obsPlain">>
  /\ toHost["a"] = <<Data("object", "P5_THUMB")>>

\* the observers called by the last message event, in the order called
RECURSIVE CalledIn(_)
CalledIn(log) ==
  IF log = <<>> THEN <<>> ELSE <<Head(log).h>> \o CalledIn(Tail(log))

\* a step that delivers an object of a known tag to the listening runner
DeliversKnown ==
  /\ toHost["a"] # <<>> /\ toHost'["a"] = Tail(toHost["a"])
  /\ IsObject(Head(toHost["a"]))
  /\ Head(toHost["a"]).type \in Tags \cup ConsoleTypes
  /\ Ctl.listening

\* C17: the delivery of a message of a known tag calls every observer
\* registered for the tag when the message arrives, once each, in the order
\* of registration, also when observers unsubscribe themselves or others
\* while it is dispatched; an observer unsubscribed earlier is not in the
\* set and is not called
C17_AllObserversInOrder ==
  [][DeliversKnown =>
       CalledIn(observed'["a"]) =
         HandlersFor(Ctl, Head(toHost["a"]).type)]_vars

\* a payload handleMessage has nothing to do with: not an object, or an
\* object whose type is missing or not one it knows
Foreign(d) == ~IsObject(d) \/ d.type \notin Tags \cup ConsoleTypes

\* C18: the delivery of a payload that is not an object (undefined, a
\* string, a number, null) or of an object with a missing or unknown type
\* calls no observer and leaves the runner, its handler sets and the tile
\* as they are
C18_ForeignIgnored ==
  [][(/\ toHost["a"] # <<>> /\ toHost'["a"] = Tail(toHost["a"])
      /\ Foreign(Head(toHost["a"])))
     => /\ observed'["a"] = <<>>
        /\ run' = run /\ tile' = tile /\ toCtx' = toCtx]_vars

\* null on its way to a listening runner with three observers registered
C18_Witness ==
  /\ Ctl.listening /\ Registered(Ctl) = 3
  /\ Ctl.thumbHandlers # <<>> /\ Ctl.errorHandlers # <<>>
  /\ toHost["a"] = <<Data("object", "null")>>

\* ------------------------------------------------------------------------
\* Claims about the assembled document
\* ------------------------------------------------------------------------
\* run() has assembled a document from the file set
Assembled == srcdoc # <<>> /\ srcdoc # BlankDoc

\* the positions of a token in the assembled document
At(tok) == {i \in 1..Len(srcdoc) : srcdoc[i] = tok}

\* the author's inline scripts in the assembled document
AuthorScripts == At(Tok("<script>"))

\* the console-interception script is the element right after the opening
\* head tag and precedes every author script
ConsoleFirstInHead ==
  \E i \in At(ConsoleScript) :
    /\ i > 1
    /\ srcdoc[i - 1] = Tok("<head>")
    /\ \A j \in AuthorScripts : i < j

\* C19: for every file set whose index.html is a non-empty string, the
\* assembled document contains the console-interception script as the
\* first element after the opening head tag, before every author script,
\* also when the author's document has no head or no html element.
C19_ConsoleFirst ==
  (Assembled /\ input.index.has /\ input.index.toks # <<>>)
    => ConsoleFirstInHead

\* the elements of the assembled document with a given tag
Elements(t) == {i \in 1..Len(srcdoc) : srcdoc[i].t = t}

\* the text appears in the body at some place
Within(body, text) ==
  \E n \in 0..(Len(body) - Len(text)) :
    SubSeq(body, n + 1, n + Len(text)) = text

\* one inline element of the tag holds the content of every one of the
\* files, as it is or escaped
OneHolding(t, es) ==
  /\ Cardinality(Elements(t)) = 1
  /\ \A i \in Elements(t) :
       \A k \in 1..Len(es) :
         \/ Within(srcdoc[i].body, FileChunks(es[k]))
         \/ Within(srcdoc[i].body, escape(FileChunks(es[k])))

\* what the fallback document embeds besides the console-interception
\* script
FallbackRest ==
  /\ At(ThumbBridge) # {}
  /\ At(P5Cdn) # {}
  /\ OneHolding("<style>", SelectSeq(input.files, IsCss))
  /\ OneHolding("<script>", SelectSeq(input.files, IsJs))

\* C20: for every file set without index.html, the assembled fallback
\* document embeds the console-interception script, the thumbnail bridge
\* and the default p5 script reference, with one inline stylesheet holding
\* all *.css files and one inline script holding all *.js files.
C20_FallbackEmbedsAll ==
  (Assembled /\ ~input.index.has) =>
    (At(ConsoleScript) # {} /\ FallbackRest)

\* the script references of the author's index.html
AuthorRefs ==
  {i \in 1..Len(input.index.toks) : input.index.toks[i].t = "<script src>"}

\* the reference is to an absolute or external URL
External(src) == StartsWithHttp(src) \/ StartsWithTwoSlashes(src)

\* the file set has text for a key
HasText(key) ==
  Get(input.files, key).kind = "text" /\ Get(input.files, key).chunks # <<>>

\* C21: a script tag of the author's document whose src is an absolute or
\* external URL (starts with http, https or //) is in the assembled
\* document exactly as written, neither inlined nor rewritten, also when
\* the file set has a key equal to the URL or to its file name.
C21_ExternalUntouched ==
  (Assembled /\ input.index.has) =>
    \A i \in AuthorRefs :
      External(input.index.toks[i].src) => At(input.index.toks[i]) # {}

\* a document was assembled whose script refers to an external URL while
\* the file set has text under the URL's file name, and the tag is kept
C21_Witness ==
  /\ Assembled /\ input.index.has
  /\ \E i \in AuthorRefs :
       /\ StartsWithTwoSlashes(input.index.toks[i].src)
       /\ HasText(Base(input.index.toks[i].src))
       /\ At(input.index.toks[i]) # {}

\* the keys under which the file set may hold a script reference: the
\* exact path, the normalized path and the file name
Candidates(src) == {src, StripSlashes(src), Base(StripSlashes(src))}

\* the contents the file set holds for a script reference
Held(src) == {Get(input.files, k) : k \in Candidates(src)} \ {Undefined}

\* what the assembled document has in place of a script reference
Inlined(src) ==
  \E c \in Held(src) :
    c.kind = "text" /\ At(Holding("<script>", escape(c.chunks))) # {}

Rewritten(src) == At(ScriptSrc(<<"", "file">> \o StripSlashes(src))) # {}

AsWritten(src) == At(ScriptSrc(src)) # {}

\* the reference is treated as the claim says: inlined when the file set
\* holds text for it, rewritten when it holds a marker, left alone when it
\* holds nothing
TreatedByContent(src) ==
  /\ (\A c \in Held(src) : c.kind = "text") /\ Held(src) # {}
       => Inlined(src) /\ ~AsWritten(src)
  /\ (\A c \in Held(src) : IsMarker(c)) /\ Held(src) # {}
       => Rewritten(src) /\ ~AsWritten(src)
  /\ Held(src) = {} => AsWritten(src)

\* C22: every script reference of the author's document with a local path
\* is replaced by an inline script when the file set holds text for it (by
\* exact path, normalized path or file name), has its src rewritten when
\* the file set holds an uploaded-asset marker, and is left as written
\* when the file set has no entry; this for every local path, whatever its
\* name.
C22_LocalScripts ==
  (Assembled /\ input.index.has) =>
    \A i \in AuthorRefs :
      ~External(input.index.toks[i].src)
        => TreatedByContent(input.index.toks[i].src)

\* the *.js files of the file set, in key order
JsFiles == SelectSeq(input.files, IsJs)

\* the text of the inline script of the fallback document
ShellScript == srcdoc[CHOOSE i \in Elements("<script>") : TRUE].body

\* the places of a file's `// path` line in the text
FileAt(text, key) ==
  {n \in 1..Len(text) : text[n].kind = "file" /\ text[n].of = key}

\* sketch.js as the file set has it
SketchEntry == Entry(<<"sketch.js">>, Get(input.files, <<"sketch.js">>))

\* the text ends with the given text
EndsWith(text, end) ==
  /\ Len(end) <= Len(text)
  /\ SubSeq(text, Len(text) - Len(end) + 1, Len(text)) = end

\* C23: for every file set containing sketch.js, the script built by
\* buildJs holds the content of sketch.js after the content of every
\* other *.js file, whatever the order of the keys, and every *.js file
\* exactly once.
C23_SketchLast ==
  (/\ Assembled /\ ~input.index.has
   /\ Get(input.files, <<"sketch.js">>) # Undefined)
    => /\ \A k \in 1..Len(JsFiles) :
            Cardinality(FileAt(ShellScript, JsFiles[k].key)) = 1
       /\ \A n \in 1..Len(ShellScript) :
            ShellScript[n].kind = "file" =>
              \E k \in 1..Len(JsFiles) : JsFiles[k].key = ShellScript[n].of
       /\ \A k \in 1..Len(JsFiles) :
            JsFiles[k].key # <<"sketch.js">> =>
              \A n \in FileAt(ShellScript, JsFiles[k].key) :
                \A m \in FileAt(ShellScript, <<"sketch.js">>) : n < m
       /\ EndsWith(ShellScript, escape(FileChunks(SketchEntry)))

\* the fallback document was assembled from a file set whose first key is
\* sketch.js and that has two more scripts
C23_Witness ==
  /\ Assembled /\ ~input.index.has
  /\ Len(JsFiles) = 3
  /\ JsFiles[1].key = <<"sketch.js">>
  /\ FileAt(ShellScript, <<"sketch.js">>) # {}

\* the inline scripts of the assembled document that hold text of files
InlinedScripts ==
  {i \in Elements("<script>") : srcdoc[i].body # <<>>}

\* the closing script tags left in the text of an inline script: each ends
\* the script element where it stands
Survivors(i) ==
  {n \in 1..Len(srcdoc[i].body) : srcdoc[i].body[n].kind = "close"}

\* C24: in every script text the assembler inlines (fallback shell and
\* inlined author references) no closing script tag of the original text
\* survives unescaped, in any letter case, so the script element ends
\* only at the tag the assembler wrote.
C24_NoCloseSurvives ==
  Assembled => \A i \in InlinedScripts : Survivors(i) = {}

\* the first <html> and the first <body> tag of the author's document and
\* of the assembled document
RootTags == {HtmlOpen, BodyTest}

AuthorTag(M) == input.index.toks[FirstMatch(input.index.toks, M)]

AssembledTag(M) == srcdoc[FirstMatch(srcdoc, M)]

\* the classes of an element: those of its first class attribute, a
\* repeated attribute is dropped when the document is parsed
Classes(attrs) == IF attrs = <<>> THEN <<>> ELSE attrs[1].names

\* the class names written in the tag, over all its class attributes
Written(attrs) == Join([k \in 1..Len(attrs) |-> attrs[k].names])

Count(names, className) ==
  Cardinality({k \in 1..Len(names) : names[k] = className})

\* the tag got the class: it has it once, after the classes it had
FitAdded(before, after) ==
  /\ Count(Classes(after), "__p5fit") = 1
  /\ Count(Written(after), "__p5fit") = 1
  /\ \A k \in 1..Len(before) :
       \A n \in 1..Len(before[k].names) :
         HasName(Classes(after), before[k].names[n])

\* C25: with fitToFrame = false the html and body tags of the author's
\* document are left exactly as written; with fitToFrame = true the class
\* __p5fit is added to the first html and body tags, their classes are
\* preserved and the class is not duplicated.
C25_FitOptIn ==
  (Assembled /\ input.index.has /\ NotBlank(input.index.toks)) =>
    \A M \in RootTags :
      FirstMatch(input.index.toks, M) # 0 =>
        IF input.fitToFrame
          THEN FitAdded(AuthorTag(M).attrs, AssembledTag(M).attrs)
          ELSE AssembledTag(M) = AuthorTag(M)

\* ------------------------------------------------------------------------
\* Claims about the asset server script
\* ------------------------------------------------------------------------
\* the requests made so far
Handed == {net.handed[i] : i \in 1..Len(net.handed)}

\* the avenues of the asset server script
Avenues == {"xhr", "fetch", "loadImage", "imageSrc", "imgFixed", "imgAdded"}

Markers ==
  {input.files[i] :
     i \in {j \in 1..Len(input.files) : IsMarker(input.files[j].content)}}

\* the path names an uploaded asset: by its logical path or its file name,
\* leading slashes and the editor/ prefix aside
NamesAsset(path) ==
  \E e \in Markers :
    {StripEditor(StripSlashes(path)), Base(path)}
      \cap {e.key, Base(e.key)} # {}

\* a retrieval path: what a rewrite of this layer or of the assembler
\* produces
IsRetrievalPath(path) ==
  \/ StartsWithFile(path)
  \/ Len(path) >= 4 /\ SubSeq(path, 1, 3) = <<"", "api", "file">>
  \/ Len(path) >= 3 /\ SubSeq(path, 1, 2) = <<"", "assets">>

\* paths this layer must never alter
AlwaysUnchanged(path) ==
  StartsWithHttp(path) \/ StartsWithData(path) \/ IsRetrievalPath(path)

\* a path that names no uploaded asset is handed on unchanged
UnmatchedPassThrough == \A h \in Handed : ~NamesAsset(h.in) => h.out = h.in

\* C27: through every avenue a requested path that is not an uploaded
\* asset is handed to the original primitive unchanged, and external URLs
\* (http, https), data URIs and already-rewritten retrieval paths are
\* always handed over unchanged.
C27_PassThrough ==
  /\ UnmatchedPassThrough
  /\ \A h \in Handed : AlwaysUnchanged(h.in) => h.out = h.in

\* the requests of a page in production whose path names an uploaded
\* asset and was resolved
ResolvedInProduction ==
  {h \in Handed :
     ~net.isDev /\ NamesAsset(h.in) /\ h.out = normalizeToFilePath(h.in)}

\* the served file name the markers give for a path: by its normalized
\* full path first, then by its file name, else the path itself
MappedName(path) ==
  LET normalized == StripEditor(StripSlashes(path))
      byPath == {e \in Markers : normalized \in {e.key, Base(e.key)}}
      byName == {e \in Markers : Base(normalized) \in {e.key, Base(e.key)}}
  IN IF byPath # {} THEN {servedName(e.content.server) : e \in byPath}
     ELSE IF byName # {} THEN {servedName(e.content.server) : e \in byName}
     ELSE {normalized}

\* '/assets/' and the mapped name, whatever the leading slashes and the
\* editor/ prefix
TargetIsMapped(h) ==
  LET normalized == StripEditor(StripSlashes(h.in))
  IN /\ \E name \in MappedName(h.in) : h.out = <<"", "assets">> \o name
     /\ \A prefix \in {<<"">>, <<"", "">>, <<"editor">>, <<"", "editor">>} :
          normalizeToFilePath(prefix \o normalized) = h.out

\* the full path and its bare file name have the same target
BareNameSameTarget(h) ==
  normalizeToFilePath(Base(StripEditor(StripSlashes(h.in)))) = h.out

\* no two markers with the file name of the path are served under
\* different names
NameUnshared(path) ==
  \A e1, e2 \in Markers :
    Base(e1.key) = Base(path) /\ Base(e2.key) = Base(path)
      => servedName(e1.content.server) = servedName(e2.content.server)

\* C28 as claimed: in production an uploaded asset's path resolves to
\* '/assets/' and the mapped file name (by normalized full path, then by
\* file name, else the normalized path), a full logical path and its bare
\* file name resolve to the same target, and leading slashes or a leading
\* editor/ do not change the result.
C28_ProductionTarget ==
  \A h \in ResolvedInProduction : TargetIsMapped(h) /\ BareNameSameTarget(h)

\* C28 amended: the same, where the full path and the bare file name have
\* the same target when no other uploaded asset of the file set has that
\* file name under another served name.
C28_ProductionTargetUnshared ==
  \A h \in ResolvedInProduction :
    /\ TargetIsMapped(h)
    /\ NameUnshared(h.in) => BareNameSameTarget(h)

\* in production img/cat.png, the only cat.png of the file set, was
\* resolved to /assets/cat123.png and then cat.png to the same
C28_Witness ==
  /\ ~net.isDev
  /\ Cardinality(Markers) = 2
  /\ NameUnshared(<<"cat.png">>)
  /\ Len(net.handed) = 2
  /\ net.handed[1].in = <<"", "editor", "img", "cat.png">>
  /\ net.handed[1].out = <<"", "assets", "cat123.png">>
  /\ net.handed[2].in = <<"cat.png">>
  /\ net.handed[2].out = <<"", "assets", "cat123.png">>

\* ------------------------------------------------------------------------
\* Claims about the asset mapping
\* ------------------------------------------------------------------------
\* the mapping has the marker's served name under its logical path and
\* under its file name
MappedBothWays(e) ==
  /\ MapGet(e.key) = servedName(e.content.server)
  /\ MapGet(Base(e.key)) = servedName(e.content.server)

\* C29 as claimed: the asset mapping built from a file set maps each
\* marker's full logical path and that path's bare file name to the same
\* served file name, for every marker, also when two logical paths share a
\* bare file name.
C29_MappingBothWays ==
  (Assembled /\ HasAssetServer) => \A e \in Markers : MappedBothWays(e)

\* C29 amended: the mapping does so for every marker whose bare file name
\* no other marker of the file set has under another served name; every
\* entry of the mapping is the served name of a marker with that logical
\* path or file name.
C29_MappingBothWaysUnshared ==
  (Assembled /\ HasAssetServer) =>
    /\ \A e \in Markers : NameUnshared(e.key) => MappedBothWays(e)
    /\ \A i \in 1..Len(ServerTables) :
         ServerTables[i].kind = "map" =>
           \E e \in Markers :
             /\ ServerTables[i].of \in {e.key, Base(e.key)}
             /\ ServerTables[i].to = servedName(e.content.server)

\* a document was assembled from the markers img/cat.png and dog.png, and
\* the mapping has cat.png and img/cat.png
C29_Witness ==
  /\ Assembled /\ HasAssetServer
  /\ {e.key : e \in Markers} = {<<"img", "cat.png">>, <<"dog.png">>}
  /\ MapGet(<<"cat.png">>) = MapGet(<<"img", "cat.png">>)
  /\ Truthy(MapGet(<<"cat.png">>))


\* ------------------------------------------------------------------------
\* Console mirroring
\* ------------------------------------------------------------------------
\* the console calls the document made so far
ConsoleLog == ctx["a"].console

\* the message holds a string for every argument of the call
OneStringEach(c) ==
  /\ Len(c.sent[1].args) = Len(c.args)
  /\ \A i \in 1..Len(c.args) :
       /\ c.sent[1].args[i].form \in {"JSON", "String"}
       /\ c.sent[1].args[i].of = c.args[i]

\* the call had its original effect, raised nothing and handed postMessage
\* exactly one message of its severity
Forwarded(c) ==
  /\ ~c.threw
  /\ Len(c.sent) = 1
  /\ c.sent[1].type = ConsoleType(c.level)
  /\ OneStringEach(c)

\* what the console observers were called with by the last message event
ConsoleSeen == SelectSeq(observed["a"], LAMBDA o : o.h = "obsConsole")

\* an observer is given the severity of the call the message came from
LevelsAgree ==
  \A i \in 1..Len(ConsoleSeen) :
    /\ ConsoleSeen[i].level \in Levels
    /\ ConsoleSeen[i].level = ConsoleLog[ConsoleSeen[i].req].level

\* C30: every call of console.log, console.warn or console.error in the
\* document has its original effect, raises nothing, and forwards exactly
\* one console message of its severity holding one string per argument;
\* the console observers of the host are given that severity as level.
C30_ConsoleMirrored ==
  /\ \A k \in 1..Len(ConsoleLog) : Forwarded(ConsoleLog[k])
  /\ LevelsAgree


\* ------------------------------------------------------------------------
\* Error capture
\* ------------------------------------------------------------------------
\* the uncaught errors and unhandled rejections of the document so far
FailureLog == ctx["a"].failures

\* the failure was forwarded as exactly one console message of level error
ForwardedAsError(f) ==
  /\ Len(f.sent) = 1
  /\ f.sent[1].type = "CONSOLE_ERROR"

\* the host is as it was before the document failed, but for what its
\* console observers were given (and its own destroy)
HostUntouched ==
  /\ tile["a"] = [InitTile EXCEPT !.iframe = 1, !.attached = {1},
                                  !.runner = 1, !.mounts = 1]
  /\ tile["b"] = InitTile
  /\ toCtx = [t \in Tiles |-> <<>>]
  /\ nodes = [t \in Tiles |-> InitPath]
  /\ run["a"][1] \in
       {subscribe(createP5Runner, "CONSOLE_LOG", "obsConsole"),
        destroy(subscribe(createP5Runner, "CONSOLE_LOG", "obsConsole"))}
  /\ \A i \in 1..Len(observed["a"]) :
       /\ observed["a"][i].h = "obsConsole"
       /\ observed["a"][i].level = "error"

\* C31: every uncaught error and every unhandled promise rejection of
\* author code is forwarded to the host as exactly one console message of
\* level error, and nothing of the host changes but what its console
\* observers are given.
C31_FailuresForwarded ==
  /\ \A k \in 1..Len(FailureLog) : ForwardedAsError(FailureLog[k])
  /\ HostUntouched


\* ------------------------------------------------------------------------
\* Claims about the viewer modal
\* ------------------------------------------------------------------------
Panels == {modal.panels[k] : k \in 1..Len(modal.panels)}

\* C32: cleanupViewerAssets never rejects: whatever the cleanup request
\* ends with, the promise is fulfilled, and closeAndCleanup goes on to
\* close the viewer once for every request that has settled.
C32_CleanupNeverRejects ==
  \A p \in Panels :
    /\ \A i \in 1..Len(p.results) : p.results[i] = "fulfilled"
    /\ p.continued = Len(p.results)
    /\ p.continued + p.pending = p.cleanups

\* a cleanup request failed on the network and the viewer was closed
C32_Witness ==
  \E p \in Panels :
    /\ p.warned > 0
    /\ p.continued > 0
    /\ p.removed
    /\ ~modal.open


\* C40: a viewer panel that was opened and then closed, by its Close
\* button, by the Escape key or by another panel opened over it, has
\* had cleanupViewerAssets called for its upload session exactly once;
\* closeModal on a modal that is not open changes nothing.
C40_CleanupOncePerClose ==
  /\ \A p \in Panels : p.removed => p.cleanups = 1
  /\ ~modal.open => closeModal(modal) = modal


\* ------------------------------------------------------------------------
\* Claims about the delayed step of mounting
\* ------------------------------------------------------------------------
\* C33: a pointer-leave with a context mounted sends Pause and then the
\* thumbnail request to the context, and from then until the context is
\* destroyed (while the tile is capturing) no Resume is sent to it,
\* whenever the leave comes, also within the 60 ms wait of the mount.
C33_PausedUntilDestroyed ==
  [][\A t \in Tiles :
       /\ (~tile[t].capturing /\ tile'[t].capturing) =>
            /\ Len(toCtx'[t]) = Len(toCtx[t]) + 2
            /\ toCtx'[t][Len(toCtx[t]) + 1].type = "P5_PAUSE"
            /\ toCtx'[t][Len(toCtx[t]) + 2].type = "REQ_THUMB"
       /\ tile[t].capturing =>
            ~(/\ Len(toCtx'[t]) > Len(toCtx[t])
              /\ toCtx'[t][Len(toCtx'[t])].type = "P5_RESUME")]_vars


\* C34: a pointer-leave puts the tile at its base size at once, with or
\* without a context mounted, and the tile keeps that size until the next
\* pointer-enter: off hover (Capturing or Idle) the tile is never
\* expanded, whatever dimension reports arrive; a capture is under way
\* only for a tile that has a runner.
C34_BaseSizeOffHover ==
  \A t \in Tiles :
    /\ ~tile[t].hovering => ~tile[t].expanded
    /\ tile[t].capturing => (~tile[t].hovering /\ tile[t].runner # Null)

\* the pointer has left, the capture is under way and a dimension report
\* of the context is about to be handled by the host
C34_Witness ==
  /\ tile["a"].capturing
  /\ tile["a"].runner # Null
  /\ ~tile["a"].expanded
  /\ toHost["a"] # <<>>
  /\ Head(toHost["a"]).type = "P5_CANVAS_DIM"


\* C38: the step of mountSketchFresh that follows its 60 ms wait acts on
\* the session that started the wait: when it runs, the runner of the tile
\* is the one that mount created, neither null (the session unmounted)
\* nor the runner of a later mount.
C38_DelayedStepOwnSession ==
  [][\A t \in Tiles : \A s \in Sids :
       (run[t][s].waitTimer /\ ~run'[t][s].waitTimer) =>
         tile[t].runner = s]_vars


\* ------------------------------------------------------------------------
\* Claims about controllers alive together
\* ------------------------------------------------------------------------
\* the observers of controller s of tile u that the message event of m,
\* posted by an iframe of tile t, calls
Invoked(u, s, m) ==
  IF run[u][s].listening /\ IsObject(m)
    THEN HandlersFor(run[u][s], m.type)
    ELSE <<>>

\* C37: the observers of a controller are called only for the messages of
\* the controller's own iframe: a message whose event is about to be
\* dispatched calls no observer of another controller, and no capture was
\* resolved by the message of another context.
C37_OwnIframeOnly ==
  /\ \A t \in Tiles : \A u \in Tiles : \A s \in Sids :
       (toHost[t] # <<>> /\ <<u, s>> # <<t, Head(toHost[t]).sid>>) =>
         Invoked(u, s, Head(toHost[t])) = <<>>
  /\ \A u \in Tiles : \A s \in Sids :
       run[u][s].by \in {ByNobody, ByTimeout, Own(u, s)}


\* ------------------------------------------------------------------------
\* Claims about the dimension message of a thumbnail request
\* ------------------------------------------------------------------------
\* the animation frame of request k runs in this step
FrameOf(k) ==
  /\ k \in 1..Len(ctx["a"].reqs)
  /\ ctx["a"].reqs[k].phase = "raf"
  /\ ctx'["a"].reqs[k].phase = "done"

\* the step posts a thumbnail reply and then one dimension message
ReplyThenDim ==
  /\ Len(toHost'["a"]) = Len(toHost["a"]) + 2
  /\ IsThumbReply(toHost'["a"][Len(toHost["a"]) + 1])
  /\ toHost'["a"][Len(toHost["a"]) + 2].type = "P5_CANVAS_DIM"

\* the message event of a dimension message calls the dimension observer
\* of the listening controller once
DimObserved ==
  (/\ toHost["a"] # <<>>
   /\ toHost'["a"] = Tail(toHost["a"])
   /\ Head(toHost["a"]).type = "P5_CANVAS_DIM"
   /\ run["a"][1].listening) =>
     Len(SelectSeq(observed'["a"], LAMBDA o : o.h = "obsDim")) = 1

\* C39: every thumbnail request whose tick found a canvas posts, in its
\* animation frame, its thumbnail reply and then one P5_CANVAS_DIM
\* message, and every such message calls the host's dimension observers,
\* whether or not the dimension poll has reported.
C39_DimAfterEveryThumb ==
  [][/\ \A k \in 1..MaxReqs : FrameOf(k) => ReplyThenDim
     /\ DimObserved]_vars

\* C39 for the frames in which the canvas is still in the document
C39_DimAfterThumbOfCanvas ==
  [][/\ \A k \in 1..MaxReqs :
          (FrameOf(k) /\ findCanvas(ctx["a"])) => ReplyThenDim
     /\ DimObserved]_vars

DimsQueued ==
  Len(SelectSeq(toHost["a"], LAMBDA m : m.type = "P5_CANVAS_DIM"))

\* the poll has reported, two requests had their frame, and three
\* dimension messages wait for the host
C39_Witness ==
  /\ ctx["a"].dimsSent /\ ~ctx["a"].dimsRaf
  /\ Len(ctx["a"].reqs) = 2
  /\ \A k \in 1..2 : ctx["a"].reqs[k].phase = "done"
  /\ DimsQueued = 3


\* ------------------------------------------------------------------------
\* Claims about the route of an uploaded script
\* ------------------------------------------------------------------------
\* the script references of the author's document that the assembler
\* replaces and for which the file set holds an uploaded-asset marker
MarkerRefs ==
  {i \in AuthorRefs :
     LET src == input.index.toks[i].src
     IN /\ src[Len(src)] \in JsSegs
        /\ ~Kept(src)
        /\ IsMarker(jsContentOf(src, input.files))}

\* C35: a script reference whose file-set content is an uploaded-asset
\* marker has its src rewritten to the route the asset server script
\* resolves that path to: the proxy route in development, the static
\* route of the mapped file in production.
C35_ScriptRouteAgrees ==
  (Assembled /\ input.index.has) =>
    \A i \in MarkerRefs :
      At(ScriptSrc(normalizeToFilePath(input.index.toks[i].src))) # {}


\* the ThumbnailBridge scripts of the assembled document
Bridges == {i \in 1..Len(srcdoc) : srcdoc[i] = ThumbBridge}

\* the author's document references the rendering library
ReferencesLibrary ==
  \E i \in 1..Len(input.index.toks) :
    LET tok == input.index.toks[i]
    IN tok.t = "<script src>" /\ tok.src[Len(tok.src)] \in P5LibSegs

\* C36: for a file set with an index.html the assembled document holds the
\* ThumbnailBridge script exactly once, and holds the default
\* rendering-library script if and only if the author's document references
\* no rendering library; with or without a closing body tag.
C36_BridgeOnceLibraryIffMissing ==
  (Assembled /\ input.index.has) =>
    /\ Cardinality(Bridges) = 1
    /\ (\E i \in 1..Len(srcdoc) : srcdoc[i] = P5Cdn) <=> ~ReferencesLibrary

====
